---------------------------- MODULE Spec2Model ----------------------------
(***************************************************************************)
(* Water-quality forecasting engine and forecast cache                     *)
(* (src/components/WaterQualityAPI/utils/forecastingEngine.js).            *)
(*                                                                         *)
(* and the batch summary generator and data aggregator utilities           *)
(* (src/unnamed/part_003, src/unnamed/part_004).                           *)
(*                                                                         *)
(* Five specifications share this module:                                  *)
(*   SpecCache      - one ForecastCache instance driven by set/get/clear   *)
(*                    calls while the wall clock (Date.now()) advances;    *)
(*   SpecForecast   - calls of generateWaterQualityForecast and            *)
(*                    generateRegionalForecasts on a caller-owned array;   *)
(*   SpecBatch      - calls of generateBatchSummaries on the readings a    *)
(*                    caller has collected, in the process's time zone;    *)
(*   SpecAggregator - calls of calculateStatistics and                     *)
(*                    calculateQualityDistribution on a list of numbers;   *)
(*   SpecReadings   - calls of detectAnomalies, calculateTrend and of      *)
(*                    generateBatchSummaries with includeAnomalies on the  *)
(*                    reading objects a caller holds.                      *)
(***************************************************************************)
EXTENDS Integers, Sequences, FiniteSets, TLC

VARIABLES
    cache,          \* ForecastCache.cache: the Map, as its entries in insertion order
    now,            \* Date.now(), in milliseconds
    lastOp,         \* the last ForecastCache call: its arguments and return value
    history,        \* the set(), clear() and key-finding get() calls so far, oldest first
    calls,          \* number of cache calls made so far
    ticks,          \* number of clock advances so far
    historicalData, \* the caller's array handed to the forecasting functions
    randoms,        \* the values Math.random() is going to return, cyclically
    rngPos,         \* how many Math.random() draws have been consumed (mod period)
    lastCall,       \* the last forecasting call: arguments, array before, result
    batchInput,     \* the readings collected for generateBatchSummaries
    timeZone,       \* the time zone the process runs in
    batchCall,      \* the last generateBatchSummaries call: arguments and result
    numbers,        \* the list handed to the dataAggregator functions
    aggCall,        \* the last dataAggregator call: function and result
    sensorData,     \* the caller's array of reading objects
    dataCall,       \* the last call on sensorData: arguments, array before, result
    detections      \* number of detectAnomalies calls made so far

cacheVars == <<cache, now, lastOp, history, calls, ticks>>
engineVars == <<historicalData, randoms, rngPos, lastCall>>
batchVars == <<batchInput, timeZone, batchCall>>
aggregatorVars == <<numbers, aggCall>>
readingVars == <<sensorData, dataCall, detections>>
vars == <<cache, now, lastOp, history, calls, ticks,
          historicalData, randoms, rngPos, lastCall,
          batchInput, timeZone, batchCall, numbers, aggCall,
          sensorData, dataCall, detections>>

-----------------------------------------------------------------------------
(* JavaScript values used by both parts *)

NULL == "<null>"
UNDEFINED == "<undefined>"

-----------------------------------------------------------------------------
(* JavaScript numbers: exact rationals n/d (d > 0, lowest terms), and NaN.  *)
(* Math.sqrt is evaluated to two decimals, Math.exp to three.              *)

RECURSIVE GCD(_, _)
GCD(a, b) == IF b = 0 THEN a ELSE GCD(b, a % b)

Abs(i) == IF i < 0 THEN -i ELSE i

NaN == [n |-> 0, d |-> 0]
IsNaN(a) == a.d = 0

Rat(n, d) ==
    LET g == GCD(Abs(n), Abs(d))
    IN IF d > 0 THEN [n |-> n \div g, d |-> d \div g]
       ELSE [n |-> (-n) \div g, d |-> (-d) \div g]

Num(i) == [n |-> i, d |-> 1]

\* a + b
Add(a, b) ==
    IF IsNaN(a) \/ IsNaN(b) THEN NaN
    ELSE IF a.d = b.d /\ a.d = 1 THEN [n |-> a.n + b.n, d |-> 1]
    ELSE LET g == GCD(a.d, b.d)
         IN Rat(a.n * (b.d \div g) + b.n * (a.d \div g), (a.d \div g) * b.d)

Neg(a) == [n |-> -a.n, d |-> a.d]

\* a - b
Sub(a, b) == Add(a, Neg(b))

\* a * b
Mul(a, b) ==
    IF IsNaN(a) \/ IsNaN(b) THEN NaN
    ELSE IF a.d = b.d /\ a.d = 1 THEN [n |-> a.n * b.n, d |-> 1]
    ELSE LET g1 == GCD(Abs(a.n), b.d)
             g2 == GCD(Abs(b.n), a.d)
         IN IF a.n = 0 \/ b.n = 0 THEN Num(0)
            ELSE [n |-> (a.n \div g1) * (b.n \div g2),
                  d |-> (a.d \div g2) * (b.d \div g1)]

\* a / b; the engine guards or excludes every zero divisor (0/0 is NaN)
Div(a, b) ==
    IF IsNaN(a) \/ IsNaN(b) \/ b.n = 0 THEN NaN
    ELSE Mul(a, IF b.n > 0 THEN [n |-> b.d, d |-> b.n] ELSE [n |-> -b.d, d |-> -b.n])

\* comparisons: every comparison with NaN is false
Lt(a, b) == ~IsNaN(a) /\ ~IsNaN(b) /\ a.n * b.d < b.n * a.d
Gt(a, b) == Lt(b, a)
Le(a, b) == ~IsNaN(a) /\ ~IsNaN(b) /\ a.n * b.d <= b.n * a.d
Ge(a, b) == Le(b, a)

\* Math.max / Math.min / Math.abs: NaN if an argument is NaN
MathMax(a, b) == IF IsNaN(a) \/ IsNaN(b) THEN NaN ELSE IF Lt(a, b) THEN b ELSE a
MathMin(a, b) == IF IsNaN(a) \/ IsNaN(b) THEN NaN ELSE IF Lt(b, a) THEN b ELSE a
MathAbs(a) == [n |-> Abs(a.n), d |-> a.d]

\* floor of n/d for d > 0 (\div rounds towards minus infinity)
Floor(a) == a.n \div a.d

\* Math.round: the nearest integer, halves rounded up
MathRound(a) == IF IsNaN(a) THEN NaN ELSE Num(Floor(Add(a, Rat(1, 2))))

\* Math.round(x * 10) / 10
Round1(a) == Div(MathRound(Mul(a, Num(10))), Num(10))

\* a to three decimals (towards minus infinity)
Milli(a) == IF IsNaN(a) THEN NaN
            ELSE Rat((a.n \div a.d) * 1000 + ((a.n % a.d) * 1000) \div a.d, 1000)

\* floor(a * 100)
Hundredths(a) == (a.n \div a.d) * 100 + ((a.n % a.d) * 100) \div a.d

RECURSIVE ISqrtIn(_, _, _)
ISqrtIn(v, lo, hi) ==
    IF lo >= hi THEN lo
    ELSE LET mid == (lo + hi + 1) \div 2
         IN IF mid * mid <= v THEN ISqrtIn(v, mid, hi) ELSE ISqrtIn(v, lo, mid - 1)

\* Math.sqrt of a non-negative number, to two decimals:
\* sqrt(a) = sqrt(a * 10^4) / 10^2
MathSqrt(a) ==
    IF IsNaN(a) \/ a.n < 0 THEN NaN
    ELSE Rat(ISqrtIn(Hundredths(a) * 100, 0, 46340), 100)

\* Math.exp(index * 0.1), the exponent's sign lost
ExpGrowth(index) ==
    Rat(<<1000, 1105, 1221, 1350, 1492, 1649, 1822>>[index + 1], 1000)

\* Math.exp(-index * 0.1) for index 0..6, to three decimals
ExpDecay(index) ==
    Rat(<<1000, 905, 819, 741, 670, 607, 549>>[index + 1], 1000)

-----------------------------------------------------------------------------
(* ForecastCache *)

\* bounds of the cache exploration
MaxCalls == 3
MaxTicks == 2

\* new ForecastCache(1), as the tests construct it
ttlMinutes == 1
ttl == ttlMinutes * 60 * 1000

CacheData == {"test1", "updated"}

\* params objects, as their own properties in insertion order
Prop(k, v) == [k |-> k, v |-> v]
Args(region, params) == [region |-> region, params |-> params]

\* the (region, params) argument pairs the calls are made with
CacheArgs ==
    { Args("region1", <<>>),
      Args("region2", <<>>),
      Args("region1", <<Prop("param", "value"), Prop("days", "7")>>),
      Args("region1", <<Prop("days", "7"), Prop("param", "value")>>),
      Args("region1", <<Prop("region", "region2")>>) }

\* obj[k] = v on an ordinary object: an existing property keeps its place
RECURSIVE ObjAssign(_, _, _)
ObjAssign(obj, k, v) ==
    IF obj = <<>> THEN <<Prop(k, v)>>
    ELSE IF Head(obj).k = k THEN <<Prop(k, v)>> \o Tail(obj)
    ELSE <<Head(obj)>> \o ObjAssign(Tail(obj), k, v)

\* { ...target, ...source }
RECURSIVE ObjSpread(_, _)
ObjSpread(target, source) ==
    IF source = <<>> THEN target
    ELSE ObjSpread(ObjAssign(target, Head(source).k, Head(source).v), Tail(source))

\* JSON.stringify of an object whose property values are strings
RECURSIVE JsonMembers(_)
JsonMembers(obj) ==
    IF obj = <<>> THEN ""
    ELSE "\"" \o Head(obj).k \o "\":\"" \o Head(obj).v \o "\""
         \o (IF Tail(obj) = <<>> THEN "" ELSE "," \o JsonMembers(Tail(obj)))

JSONstringify(obj) == "{" \o JsonMembers(obj) \o "}"

generateKey(region, params) ==
    LET keyData == ObjSpread(<<Prop("region", region)>>, params)
    IN JSONstringify(keyData)

\* Map.prototype.has / get / set / delete on the entry list
MapHas(m, key) == \E i \in 1..Len(m) : m[i].key = key
MapGet(m, key) == m[CHOOSE i \in 1..Len(m) : m[i].key = key].value

MapSetAppend(m, key, value) == Append(m, [key |-> key, value |-> value])

MapSet(m, key, value) ==
    IF MapHas(m, key)
    THEN [i \in 1..Len(m) |->
            IF m[i].key = key THEN [key |-> key, value |-> value] ELSE m[i]]
    ELSE Append(m, [key |-> key, value |-> value])

MapDelete(m, key) == SelectSeq(m, LAMBDA e : e.key # key)

size == Len(cache)

\* the outcome of get(region, params): the value returned and the Map afterwards
CacheGetStrict(region, params) ==
    LET key == generateKey(region, params)
    IN IF ~MapHas(cache, key) THEN [ret |-> NULL, cache |-> cache]
       ELSE LET cached == MapGet(cache, key)
            IN IF now - cached.timestamp >= ttl
               THEN [ret |-> NULL, cache |-> MapDelete(cache, key)]
               ELSE [ret |-> cached.data, cache |-> cache]

\* a get that restarts the lifetime of the entry it returns
CacheGetRefreshing(region, params) ==
    LET key == generateKey(region, params)
    IN IF ~MapHas(cache, key) THEN [ret |-> NULL, cache |-> cache]
       ELSE LET cached == MapGet(cache, key)
            IN IF now - cached.timestamp > ttl
               THEN [ret |-> NULL, cache |-> MapDelete(cache, key)]
               ELSE [ret |-> cached.data,
                     cache |-> MapSet(cache, key, [cached EXCEPT !.timestamp = now])]

\* a get that also evicts every other expired entry
CacheGetSweeping(region, params) ==
    LET key == generateKey(region, params)
    IN IF ~MapHas(cache, key) THEN [ret |-> NULL, cache |-> cache]
       ELSE LET cached == MapGet(cache, key)
            IN IF now - cached.timestamp > ttl
               THEN [ret |-> NULL,
                     cache |-> SelectSeq(cache, LAMBDA e : now - e.value.timestamp <= ttl)]
               ELSE [ret |-> cached.data, cache |-> cache]

CacheGet(region, params) ==
    LET key == generateKey(region, params)
    IN IF ~MapHas(cache, key) THEN [ret |-> NULL, cache |-> cache]
       ELSE LET cached == MapGet(cache, key)
            IN IF now - cached.timestamp > ttl
               THEN [ret |-> NULL, cache |-> MapDelete(cache, key)]
               ELSE [ret |-> cached.data, cache |-> cache]

NoOp == [op |-> "none", region |-> NULL, params |-> <<>>, key |-> NULL,
         data |-> NULL, ret |-> UNDEFINED, at |-> 0, sizeBefore |-> 0,
         hadKey |-> FALSE]

Get(region, params) ==
    /\ calls < MaxCalls
    /\ LET out == CacheGet(region, params)
       IN /\ cache' = out.cache
          /\ lastOp' = [op |-> "get", region |-> region, params |-> params,
                        key |-> generateKey(region, params), data |-> NULL,
                        ret |-> out.ret, at |-> now, sizeBefore |-> size,
                        hadKey |-> MapHas(cache, generateKey(region, params))]
          /\ history' =
                 IF MapHas(cache, generateKey(region, params))
                 THEN Append(history,
                        [op |-> "get", region |-> region, params |-> params,
                         key |-> generateKey(region, params), data |-> out.ret,
                         at |-> now])
                 ELSE history
    /\ calls' = calls + 1
    /\ UNCHANGED <<now, ticks>>
    /\ UNCHANGED <<engineVars, batchVars, aggregatorVars, readingVars>>

Set(region, data, params) ==
    /\ calls < MaxCalls
    /\ LET key == generateKey(region, params)
       IN /\ cache' = MapSet(cache, key, [data |-> data, timestamp |-> now])
          /\ lastOp' = [op |-> "set", region |-> region, params |-> params,
                        key |-> key, data |-> data, ret |-> UNDEFINED, at |-> now,
                        sizeBefore |-> size, hadKey |-> MapHas(cache, key)]
          /\ history' = Append(history,
                 [op |-> "set", region |-> region, params |-> params, key |-> key,
                  data |-> data, at |-> now])
    /\ calls' = calls + 1
    /\ UNCHANGED <<now, ticks>>
    /\ UNCHANGED <<engineVars, batchVars, aggregatorVars, readingVars>>

ClearKeepLast == IF cache = <<>> THEN <<>> ELSE <<cache[Len(cache)]>>

ClearedMap == <<>>

Clear ==
    /\ calls < MaxCalls
    /\ cache' = ClearedMap
    /\ lastOp' = [NoOp EXCEPT !.op = "clear", !.at = now, !.sizeBefore = size]
    /\ history' = Append(history,
           [op |-> "clear", region |-> NULL, params |-> <<>>, key |-> NULL,
            data |-> NULL, at |-> now])
    /\ calls' = calls + 1
    /\ UNCHANGED <<now, ticks>>
    /\ UNCHANGED <<engineVars, batchVars, aggregatorVars, readingVars>>

\* time passes between calls, a whole ttl at a time
Tick ==
    /\ ticks < MaxTicks
    /\ now' = now + ttl
    /\ ticks' = ticks + 1
    /\ UNCHANGED <<cache, lastOp, history, calls>>
    /\ UNCHANGED <<engineVars, batchVars, aggregatorVars, readingVars>>

InitCache ==
    /\ cache = <<>>
    /\ now = 0
    /\ lastOp = NoOp
    /\ history = <<>>
    /\ calls = 0
    /\ ticks = 0
    /\ historicalData = [isArray |-> TRUE, items |-> <<>>]
    /\ randoms = <<>>
    /\ rngPos = 0
    /\ lastCall = [fn |-> "none"]
    /\ batchInput = <<>>
    /\ timeZone = "UTC"
    /\ batchCall = [fn |-> "none"]
    /\ numbers = <<>>
    /\ aggCall = [fn |-> "none"]
    /\ sensorData = <<>>
    /\ dataCall = [fn |-> "none"]
    /\ detections = 0

NextCache ==
    \/ \E a \in CacheArgs : Get(a.region, a.params)
    \/ \E a \in CacheArgs, d \in CacheData : Set(a.region, d, a.params)
    \/ Clear
    \/ Tick

SpecCache == InitCache /\ [][NextCache]_vars

-----------------------------------------------------------------------------
(* Forecasting engine: pure functions *)

RECURSIVE SumSeq(_)
SumSeq(values) == IF values = <<>> THEN Num(0) ELSE Add(Head(values), SumSeq(Tail(values)))

\* array.slice(-k)
SliceLast(arr, k) == IF Len(arr) <= k THEN arr ELSE SubSeq(arr, Len(arr) - k + 1, Len(arr))

\* the number a reading's region_avg_quality_index takes in arithmetic:
\* null converts to 0, a missing field (undefined) to NaN
ToNumber(q) == CASE q.kind = "number" -> q.val
                 [] q.kind = "null" -> Num(0)
                 [] OTHER -> NaN

QualityOf(reading) == ToNumber(reading.region_avg_quality_index)

\* new Date(timestamp): whole days since 1970-01-01, or an Invalid Date
NewDate(timestamp) == timestamp

\* Date.prototype.getDay (1970-01-01 was a Thursday); NaN for an Invalid Date
GetDay(date) == IF date.valid THEN (date.day + 4) % 7 ELSE -1

\* calculateLinearRegression, without r2 (r2 only feeds summary.confidence)
calculateLinearRegression(data) ==
    LET n == Len(data)
        xs == [i \in 1..n |-> Num(data[i].x)]
        ys == [i \in 1..n |-> data[i].y]
        sumX == SumSeq(xs)
        sumY == SumSeq(ys)
        sumXY == SumSeq([i \in 1..n |-> Mul(xs[i], ys[i])])
        sumXX == SumSeq([i \in 1..n |-> Mul(xs[i], xs[i])])
        slope == Div(Sub(Mul(Num(n), sumXY), Mul(sumX, sumY)),
                     Sub(Mul(Num(n), sumXX), Mul(sumX, sumX)))
        intercept == Div(Sub(sumY, Mul(slope, sumX)), Num(n))
    IN IF n < 2 THEN [slope |-> Num(0), intercept |-> Num(0)]
       ELSE [slope |-> slope, intercept |-> intercept]

Max2(a, b) == IF a > b THEN a ELSE b
Min2(a, b) == IF a < b THEN a ELSE b

calculateMovingAverage(values, window) ==
    IF Len(values) < window THEN values
    ELSE [j \in 1..Len(values) |->
            LET i == j - 1
                start == Max2(0, i - (window \div 2))
                end == Min2(Len(values), start + window)
                slice == SubSeq(values, start + 1, end)
            IN Div(SumSeq(slice), Num(Len(slice)))]

\* detectSeasonalPatterns; the arrays are indexed 0..6 (here 1..7).
\* A reading with an Invalid Date lands on the property "NaN", not on a weekday.
detectSeasonalPatterns(data) ==
    LET on(d) == SelectSeq(data, LAMBDA r : GetDay(NewDate(r.timestamp)) = d)
        dayOfWeekPatterns == [k \in 1..7 |->
            SumSeq([i \in 1..Len(on(k - 1)) |-> QualityOf(on(k - 1)[i])])]
        dayOfWeekCounts == [k \in 1..7 |-> Len(on(k - 1))]
        weeklyPattern == [k \in 1..7 |->
            IF dayOfWeekCounts[k] > 0
            THEN Div(dayOfWeekPatterns[k], Num(dayOfWeekCounts[k])) ELSE Num(0)]
        overallAverage == Div(SumSeq(weeklyPattern), Num(7))
    IN [weeklyPattern |-> weeklyPattern,
        seasonalFactors |-> [k \in 1..7 |->
            IF Gt(overallAverage, Num(0))
            THEN Div(weeklyPattern[k], overallAverage) ELSE Num(1)],
        overallAverage |-> overallAverage]

\* a threshold that takes a slope of exactly 0.5 as stable
determineTrendInclusive(recentValues, slope) ==
    IF Le(MathAbs(slope), Rat(1, 2)) THEN "stable"
    ELSE IF Gt(slope, Num(0)) THEN "improving" ELSE "declining"

determineTrend(recentValues, slope) ==
    IF Lt(MathAbs(slope), Rat(1, 2)) THEN "stable"
    ELSE IF Gt(slope, Num(0)) THEN "improving" ELSE "declining"

\* addConfidenceIntervals; forecasts[j] is the forecast of index j - 1
addConfidenceIntervals(data, forecasts) ==
    LET m == Min2(Len(data), 30) - 1          \* errors.length
        errors == [i \in 1..m |->
            MathAbs(Sub(QualityOf(data[i + 1]), QualityOf(data[i])))]
        avgError == IF m > 0 THEN Div(SumSeq(errors), Num(m)) ELSE Num(5)
        stdError ==
            IF m > 1
            THEN MathSqrt(Div(SumSeq([i \in 1..m |->
                     Mul(Sub(errors[i], avgError), Sub(errors[i], avgError))]),
                     Num(m - 1)))
            ELSE Num(3)
    IN [j \in 1..Len(forecasts) |->
          LET index == j - 1
              confidenceDecay == ExpDecay(index)
              margin == Milli(Mul(Milli(Mul(Mul(stdError, Rat(196, 100)),
                                            Add(Num(1), Mul(Num(index), Rat(2, 10))))),
                                  confidenceDecay))
              q == forecasts[j].quality_index
          IN [date |-> forecasts[j].date,
              quality_index |-> q,
              day_offset |-> forecasts[j].day_offset,
              seasonal_factor |-> forecasts[j].seasonal_factor,
              trend_component |-> forecasts[j].trend_component,
              base_component |-> forecasts[j].base_component,
              confidence_interval |->
                 [lower |-> MathMax(Num(0), Sub(q, margin)),
                  upper |-> MathMin(Num(100), Add(q, margin)),
                  confidence_level |-> MathMax(Rat(1, 2), Mul(Rat(95, 100), confidenceDecay))]]]

-----------------------------------------------------------------------------
(* Forecasting engine: generateWaterQualityForecast *)

\* the comparator (a, b) => new Date(a.timestamp) - new Date(b.timestamp);
\* Array.prototype.sort takes a NaN result as 0
Comparator(a, b) ==
    IF NewDate(a.timestamp).valid /\ NewDate(b.timestamp).valid
    THEN NewDate(a.timestamp).day - NewDate(b.timestamp).day
    ELSE 0

InsertAt(arr, pos, x) == SubSeq(arr, 1, pos) \o <<x>> \o SubSeq(arr, pos + 1, Len(arr))

\* insertion from the right: x goes after the last element not greater than it
RECURSIVE LinearPos(_, _, _)
LinearPos(arr, x, i) ==
    IF i > 0 /\ Comparator(arr[i], x) > 0 THEN LinearPos(arr, x, i - 1) ELSE i

\* binary insertion: the place a binary search with the comparator finds
RECURSIVE BinaryPos(_, _, _, _)
BinaryPos(arr, x, left, right) ==
    IF left >= right THEN left
    ELSE LET mid == left + ((right - left) \div 2)
         IN IF Comparator(x, arr[mid + 1]) < 0
            THEN BinaryPos(arr, x, left, mid)
            ELSE BinaryPos(arr, x, mid + 1, right)

RECURSIVE SortFrom(_, _, _)
SortFrom(alg, done, rest) ==
    IF rest = <<>> THEN done
    ELSE LET x == Head(rest)
             pos == IF alg = "binary" THEN BinaryPos(done, x, 0, Len(done))
                    ELSE LinearPos(done, x, Len(done))
         IN SortFrom(alg, InsertAt(done, pos, x), Tail(rest))

\* data.sort(comparator). With valid timestamps every stable sort gives the
\* same array; with an Invalid Date the comparator is inconsistent and the
\* order depends on the algorithm, so the algorithm is left open.
SortAlgorithms == {"linear", "binary"}
AlgorithmsFor(arg) ==
    IF \A i \in 1..Len(arg.items) : arg.items[i].isNull \/ arg.items[i].timestamp.valid
    THEN {"linear"} ELSE SortAlgorithms
\* a sort that leaves the array as it was given
NoSort(alg, data) == data
ArraySort(alg, data) == SortFrom(alg, <<>>, data)

InsufficientData ==
    "Insufficient historical data for forecasting (minimum 7 data points required)"

Thrown(message, array, draws) ==
    [threw |-> TRUE, message |-> message, array |-> array, draws |-> draws]

\* Math.random() number k (from 0) of a call that starts at stream position pos
RandomAt(pos, k) == randoms[((pos + k) % Len(randoms)) + 1]

\* lines 195-197, which do not depend on the day of the loop they are in
RecentAverage(recentData) ==
    LET recentSlice == SliceLast(recentData, 7)
        recentValues == [i \in 1..Len(recentSlice) |-> QualityOf(recentSlice[i])]
        smoothedRecent == calculateMovingAverage(recentValues, 3)
    IN smoothedRecent[Len(smoothedRecent)]

\* a variation of up to 3 points either way
WideNoise(random) == Mul(Sub(random, Rat(1, 2)), Num(6))

\* (Math.random() - 0.5) * 2
Noise(random) == Mul(Sub(random, Rat(1, 2)), Num(2))

\* the loop body of one forecast day, before the confidence intervals
ForecastDay(recentData, regression, seasonalAnalysis, baseDate, day, random, recentAvg) ==
    LET forecastDate == [valid |-> baseDate.valid, day |-> baseDate.day + day]
        basePrediction ==
            Add(Mul(regression.slope, Num(Len(recentData) - 1 + day)), regression.intercept)
        dayOfWeek == GetDay(forecastDate)
        factor == IF dayOfWeek \in 0..6
                  THEN seasonalAnalysis.seasonalFactors[dayOfWeek + 1] ELSE NaN
        \* seasonalFactors[dayOfWeek] || 1
        seasonalFactor == IF IsNaN(factor) \/ factor.n = 0 THEN Num(1) ELSE factor
        \* carried to three decimals
        combined == Add(Milli(Mul(basePrediction, Rat(6, 10))),
                        Milli(Mul(Mul(recentAvg, seasonalFactor), Rat(4, 10))))
        noise == Noise(random)
        qualityIndex == MathMax(Num(0), MathMin(Num(100), Add(combined, noise)))
    IN [date |-> forecastDate.day,
        quality_index |-> Round1(qualityIndex),
        day_offset |-> day,
        seasonal_factor |-> seasonalFactor,
        trend_component |-> basePrediction,
        base_component |-> recentAvg]

\* lines 220-249: the value returned when nothing was thrown
ReturnValue(region, recentData, regression, forecastsWithConfidence) ==
    LET recentQualityValues == SliceLast(recentData, 7)
        trend == determineTrend(recentQualityValues, regression.slope)
        avgForecast == Div(SumSeq([i \in 1..7 |-> forecastsWithConfidence[i].quality_index]),
                           Num(7))
        currentQuality == recentData[Len(recentData)].region_avg_quality_index
    IN [success |-> TRUE,
        forecast_quality_index |-> forecastsWithConfidence,
        trend |-> trend,
        summary |->
          [current_quality_index |-> currentQuality,
           average_forecast |-> Round1(avgForecast),
           expected_change |-> Round1(Sub(avgForecast, ToNumber(currentQuality))),
           trend_strength |-> MathAbs(regression.slope),
           data_points_used |-> Len(recentData),
           forecast_period |-> "7 days"],
        metadata |->
          [region |-> IF region # NULL THEN region ELSE "all_regions",
           model_version |-> "1.0.0",
           algorithm |-> "linear_regression_with_seasonal_adjustment"]]

\* the date the forecast days are counted from: that of the last reading
BaseDate(recentData) == NewDate(recentData[Len(recentData)].timestamp)

\* lines 180-218, given the fitted regression and seasonal analysis
ForecastLoop(after, region, pos, recentData, regression, seasonalAnalysis, recentAvg) ==
    LET baseDate == BaseDate(recentData)
    IN \* forecastDate.toISOString() on an Invalid Date, after the first noise draw
       IF ~baseDate.valid THEN Thrown("Invalid time value", after, 1)
       ELSE [threw |-> FALSE, array |-> after, draws |-> 7,
             value |-> ReturnValue(region, recentData, regression,
                 addConfidenceIntervals(recentData,
                     [day \in 1..7 |->
                         ForecastDay(recentData, regression, seasonalAnalysis, baseDate,
                                     day, RandomAt(pos, day - 1), recentAvg)]))]

\* a threshold of eight readings instead of seven
TooFewOrSeven(data) == Len(data) <= 7
\* data.length < 7
TooFew(data) == Len(data) < 7

\* lines 160-177, given the sorted data and the caller's array after the sort
Prepare(after, region, pos, data, recentData) ==
    IF TooFew(data) THEN Thrown(InsufficientData, after, 0)
    ELSE ForecastLoop(after, region, pos, recentData,
             calculateLinearRegression(
                 [i \in 1..Len(recentData) |->
                     [x |-> i - 1, y |-> QualityOf(recentData[i])]]),
             detectSeasonalPatterns(recentData),
             RecentAverage(recentData))

\* lines 153-165: the caller's array after data.sort and the sorted data.
\* sort is in place: without a region the array sorted is the caller's
Sorted(arg, region, pos, data) ==
    Prepare(IF region # NULL THEN arg ELSE [arg EXCEPT !.items = data],
            region, pos, data, SliceLast(data, 30))

\* the try block: what it returns or throws, the caller's array afterwards
\* and the number of Math.random() draws made
TryBlock(arg, region, alg, pos) ==
    LET items == arg.items
        filtered == IF region # NULL
                    THEN SelectSeq(items, LAMBDA r : r.region = region) ELSE items
    IN \* historicalData.filter / historicalData.sort on a value that has neither
       IF ~arg.isArray THEN Thrown("TypeError", arg, 0)
       \* reading.region on a null element
       ELSE IF region # NULL /\ \E i \in 1..Len(items) : items[i].isNull
       THEN Thrown("TypeError", arg, 0)
       \* a.timestamp on a null element, as soon as the comparator is called
       ELSE IF Len(filtered) >= 2 /\ \E i \in 1..Len(filtered) : filtered[i].isNull
       THEN Thrown("TypeError", arg, 0)
       ELSE Sorted(arg, region, pos, ArraySort(alg, filtered))

\* a catch that lets everything but the engine's own Error escape
CatchOwnErrorOnly(body) ==
    IF body.threw /\ body.message # InsufficientData
    THEN [raised |-> TRUE, result |-> [success |-> FALSE], array |-> body.array,
          draws |-> body.draws]
    ELSE [raised |-> FALSE,
          result |-> IF body.threw
                     THEN [success |-> FALSE, error |-> body.message,
                           forecast_quality_index |-> <<>>, trend |-> "unknown"]
                     ELSE body.value,
          array |-> body.array, draws |-> body.draws]

\* try { ... } catch (error) { return the failure result }
TryCatch(body) ==
    [raised |-> FALSE,
     result |-> IF body.threw
                THEN [success |-> FALSE, error |-> body.message,
                      forecast_quality_index |-> <<>>, trend |-> "unknown"]
                ELSE body.value,
     array |-> body.array, draws |-> body.draws]

generateWaterQualityForecast(arg, region, alg, pos) ==
    TryCatch(TryBlock(arg, region, alg, pos))

\* generateRegionalForecasts: the regions in first-seen order
RECURSIVE Unique(_, _)
Unique(seen, rest) ==
    IF rest = <<>> THEN seen
    ELSE IF \E i \in 1..Len(seen) : seen[i] = Head(rest) THEN Unique(seen, Tail(rest))
    ELSE Unique(Append(seen, Head(rest)), Tail(rest))

\* regionalForecasts[region] = generateWaterQualityForecast(historicalData, region):
\* the forecasts so far, the caller's array and the position in the random stream
RegionalStep(prev, region, c) ==
    [array |-> c.array, draws |-> prev.draws + c.draws,
     forecasts |-> (region :> c.result) @@ prev.forecasts]

\* regionalForecasts.overall = generateWaterQualityForecast(historicalData), and the return
RegionalReturn(regions, last, overall) ==
    [raised |-> FALSE,
     result |-> [success |-> TRUE,
                 regional_forecasts |-> last.forecasts @@ ("overall" :> overall.result),
                 regions |-> regions],
     array |-> overall.array, draws |-> last.draws + overall.draws]

\* a forEach that forgets to pass the region on
RegionalCallsUnscoped(arg, regions, alg, pos) ==
    LET after[k \in 0..Len(regions)] ==
            IF k = 0 THEN [array |-> arg, draws |-> pos, forecasts |-> <<>>]
            ELSE RegionalStep(after[k - 1], regions[k],
                     generateWaterQualityForecast(after[k - 1].array, NULL, alg,
                                                  after[k - 1].draws))
    IN after[Len(regions)]

\* regions.forEach(...): after[k] is the state after the call for the k-th region;
\* each call goes on drawing where the last stopped
RegionalCalls(arg, regions, alg, pos) ==
    LET after[k \in 0..Len(regions)] ==
            IF k = 0 THEN [array |-> arg, draws |-> pos, forecasts |-> <<>>]
            ELSE RegionalStep(after[k - 1], regions[k],
                     generateWaterQualityForecast(after[k - 1].array, regions[k], alg,
                                                  after[k - 1].draws))
    IN after[Len(regions)]

RegionalOverall(regions, last, alg) ==
    RegionalReturn(regions, last,
                   generateWaterQualityForecast(last.array, NULL, alg, last.draws))

generateRegionalForecasts(arg, alg, pos) ==
    LET items == arg.items
        regions == Unique(<<>>, [i \in 1..Len(items) |-> items[i].region])
    IN \* historicalData.map on a non-array, reading.region on a null element:
       \* thrown outside any try block
       IF ~arg.isArray \/ \E i \in 1..Len(items) : items[i].isNull
       THEN [raised |-> TRUE, result |-> [success |-> FALSE], array |-> arg, draws |-> pos]
       ELSE RegionalOverall(regions, RegionalCalls(arg, regions, alg, pos), alg)

-----------------------------------------------------------------------------
(* Forecasting engine: the caller's readings and the calls *)

\* bound on the length of the reading array
MaxReadings == 8

\* 2025-10-21, the first day of the test readings, in days since 1970-01-01
BaseDay == 20382

Quality(val) == [kind |-> "number", val |-> val]
NullQuality == [kind |-> "null", val |-> Num(0)]
MissingQuality == [kind |-> "missing", val |-> Num(0)]

Reading(day, region, q) ==
    [isNull |-> FALSE, timestamp |-> [valid |-> TRUE, day |-> day],
     region |-> region, region_avg_quality_index |-> q]

\* a null element of the array
NullReading ==
    [isNull |-> TRUE, timestamp |-> [valid |-> FALSE, day |-> 0],
     region |-> NULL, region_avg_quality_index |-> MissingQuality]

RegionNames == {"North Coast", "Central Valley"}

\* the order in which the readings of n consecutive days are supplied
Orders == {"ascending", "descending", "rotated"}
DayOf(order, n, i) ==
    BaseDay + (CASE order = "ascending" -> i - 1
                 [] order = "descending" -> n - i
                 [] OTHER -> (i + 1) % n)

\* which region the readings come from
RegionPatterns == {"single", "mixed"}
RegionOf(pattern, i) ==
    IF pattern = "mixed" /\ i = 2 THEN "Central Valley" ELSE "North Coast"

\* the quality index of the i-th reading
Profiles == {"flat", "rising", "falling", "alternating", "half-point",
             "missing field", "null value"}
QualityAt(profile, i) ==
    CASE profile = "flat" -> Quality(Num(85))
      [] profile = "rising" -> Quality(Num(Min2(100, 15 * (i - 1))))
      [] profile = "falling" -> Quality(Num(Max2(0, 100 - 15 * (i - 1))))
      [] profile = "alternating" -> Quality(Num(IF i % 2 = 1 THEN 0 ELSE 100))
      [] profile = "half-point" -> Quality(Rat(100 + (i - 1), 2))
      [] profile = "missing field" -> MissingQuality
      [] OTHER -> IF i = 1 THEN NullQuality ELSE Quality(Num(85))

\* arguments outside the Reading type
Malformed == {"null element", "invalid timestamp", "not an array"}

WellFormedArray(n, order, pattern, profile) ==
    [isArray |-> TRUE,
     items |-> [i \in 1..n |->
         Reading(DayOf(order, n, i), RegionOf(pattern, i), QualityAt(profile, i))]]

MalformedArgument(n, order, pattern, shape) ==
    LET ok == WellFormedArray(n, order, pattern, "flat")
    IN CASE shape = "not an array" -> [isArray |-> FALSE, items |-> <<>>]
         [] shape = "null element" ->
              [ok EXCEPT !.items = [i \in 1..n |->
                  IF i = Min2(2, n) THEN NullReading ELSE ok.items[i]]]
         [] OTHER ->
              [ok EXCEPT !.items = [i \in 1..n |->
                  IF i = n THEN [ok.items[i] EXCEPT !.timestamp.valid = FALSE]
                  ELSE ok.items[i]]]

\* the arguments the caller may hold: every order and region pattern of a
\* rising series, every profile of a descending single-region series, a
\* series that gains half a point a day, and the malformed shapes
Arguments ==
    UNION { {WellFormedArray(n, o, p, "rising") : o \in Orders, p \in RegionPatterns}
            \cup {WellFormedArray(n, "descending", "single", q) : q \in Profiles}
            \cup {WellFormedArray(n, "ascending", "single", "half-point")}
            \cup {MalformedArgument(n, "descending", p, m) :
                      p \in RegionPatterns, m \in Malformed}
          : n \in 0..MaxReadings }

\* Math.random() returns values in [0, 1): the streams it may produce, repeated
RandomStreams ==
    { <<Num(0), Rat(999, 1000), Rat(1, 2)>>, <<Rat(999, 1000), Num(0)>> }

NoCall == [fn |-> "none", region |-> NULL, before |-> [isArray |-> TRUE, items |-> <<>>],
           raised |-> FALSE, result |-> [success |-> FALSE], repeated |-> FALSE]

WellFormed(arg) ==
    /\ arg.isArray
    /\ \A i \in 1..Len(arg.items) :
          ~arg.items[i].isNull /\ arg.items[i].timestamp.valid

InitForecast ==
    /\ historicalData \in Arguments
    /\ randoms \in RandomStreams
    /\ rngPos = 0
    /\ lastCall = NoCall
    /\ cache = <<>>
    /\ now = 0
    /\ lastOp = NoOp
    /\ history = <<>>
    /\ calls = 0
    /\ ticks = 0
    /\ batchInput = <<>>
    /\ timeZone = "UTC"
    /\ batchCall = [fn |-> "none"]
    /\ numbers = <<>>
    /\ aggCall = [fn |-> "none"]
    /\ sensorData = <<>>
    /\ dataCall = [fn |-> "none"]
    /\ detections = 0

\* the caller evaluates generateWaterQualityForecast(historicalData, region)
Forecast(region, alg) ==
    \E out \in {generateWaterQualityForecast(historicalData, region, alg, rngPos)} :
       /\ historicalData' = out.array
       /\ rngPos' = (rngPos + out.draws) % Len(randoms)
       /\ lastCall' = [fn |-> "forecast", region |-> region, before |-> historicalData,
                       raised |-> out.raised, result |-> out.result,
                       \* the call before this one was the same call
                       repeated |-> lastCall.fn = "forecast" /\ lastCall.region = region]
       /\ UNCHANGED <<randoms, cacheVars, batchVars, aggregatorVars, readingVars>>

\* the caller evaluates generateRegionalForecasts(historicalData)
RegionalForecasts(alg) ==
    \E out \in {generateRegionalForecasts(historicalData, alg, rngPos)} :
       /\ historicalData' = out.array
       /\ rngPos' = out.draws % Len(randoms)
       /\ lastCall' = [fn |-> "regional", region |-> NULL, before |-> historicalData,
                       raised |-> out.raised, result |-> out.result, repeated |-> FALSE]
       /\ UNCHANGED <<randoms, cacheVars, batchVars, aggregatorVars, readingVars>>

NextForecast ==
    \/ \E region \in RegionNames \cup {NULL}, alg \in AlgorithmsFor(historicalData) :
          Forecast(region, alg)
    \/ \E alg \in AlgorithmsFor(historicalData) : RegionalForecasts(alg)

SpecForecast == InitForecast /\ [][NextForecast]_vars

-----------------------------------------------------------------------------
(* Dates: instants in minutes since 1970-01-01T00:00Z, the proleptic         *)
(* Gregorian calendar, and the local time of the process's time zone.        *)

\* days since 1970-01-01 of a civil date; month is 1..12, day may lie outside
\* the month (day 0 is the last day of the month before)
DaysFromCivil(year, month, day) ==
    LET y == IF month <= 2 THEN year - 1 ELSE year
        era == y \div 400
        yoe == y - era * 400
        mp == IF month > 2 THEN month - 3 ELSE month + 9
        doy == (153 * mp + 2) \div 5 + day - 1
        doe == yoe * 365 + yoe \div 4 - yoe \div 100 + doy
    IN era * 146097 + doe - 719468

\* the civil date of a day number: year, month (0..11 as in JavaScript),
\* date (1..31) and day of the week (0 = Sunday)
CivilFromDays(days) ==
    LET z == days + 719468
        era == z \div 146097
        doe == z - era * 146097
        yoe == (doe - doe \div 1460 + doe \div 36524 - doe \div 146096) \div 365
        doy == doe - (365 * yoe + yoe \div 4 - yoe \div 100)
        mp == (5 * doy + 2) \div 153
        month == IF mp < 10 THEN mp + 3 ELSE mp - 9
    IN [year |-> yoe + era * 400 + (IF month <= 2 THEN 1 ELSE 0),
        month |-> month - 1,
        date |-> doy - (153 * mp + 2) \div 5 + 1,
        day |-> (days + 4) % 7]

MinutesPerHour == 60
MinutesPerDay == 24 * 60

\* the time zones the process may run in
TimeZones == {"UTC", "America/Los_Angeles"}

\* 2025-11-02T09:00Z, when Pacific daylight time (UTC-7) ends and clocks go
\* back from 02:00 to 01:00 (UTC-8)
DaylightTimeEnds == DaysFromCivil(2025, 11, 2) * MinutesPerDay + 9 * MinutesPerHour

\* local time minus UTC at the instant t, in minutes
OffsetAt(zone, t) ==
    IF zone = "UTC" THEN 0
    ELSE IF t < DaylightTimeEnds THEN -7 * MinutesPerHour ELSE -8 * MinutesPerHour

\* the instant of a local time; a local time that occurs twice is taken as
\* its first occurrence
UTCOfLocal(zone, local) ==
    IF zone = "UTC" THEN local
    ELSE IF local + 7 * MinutesPerHour < DaylightTimeEnds
         THEN local + 7 * MinutesPerHour
         ELSE local + 8 * MinutesPerHour

\* an ISO 8601 string "YYYY-MM-DDTHH:mm:00.000Z"
ISOString(year, month, day, hour, minute) ==
    [valid |-> TRUE, year |-> year, month |-> month, day |-> day,
     hour |-> hour, minute |-> minute]

\* a timestamp string that is no date
NotADate == [valid |-> FALSE, year |-> 0, month |-> 0, day |-> 0, hour |-> 0, minute |-> 0]

InvalidDate == [valid |-> FALSE, time |-> 0]

\* new Date(string)
DateParse(iso) ==
    IF ~iso.valid THEN InvalidDate
    ELSE [valid |-> TRUE,
          time |-> DaysFromCivil(iso.year, iso.month, iso.day) * MinutesPerDay
                   + iso.hour * MinutesPerHour + iso.minute]

\* Date.prototype.toISOString, of a valid date
toISOString(date) ==
    LET civil == CivilFromDays(date.time \div MinutesPerDay)
    IN ISOString(civil.year, civil.month + 1, civil.date,
                 (date.time % MinutesPerDay) \div MinutesPerHour,
                 date.time % MinutesPerHour)

\* getFullYear, getMonth, getDate, getHours, getDay: the local fields
LocalFields(zone, date) ==
    LET local == date.time + OffsetAt(zone, date.time)
        civil == CivilFromDays(local \div MinutesPerDay)
    IN [year |-> civil.year, month |-> civil.month, date |-> civil.date,
        hour |-> (local % MinutesPerDay) \div MinutesPerHour, day |-> civil.day]

\* new Date(year, month, date, hour): local fields, month from 0, date and
\* month carried over when out of range
NewLocalDate(zone, year, month, date, hour) ==
    [valid |-> TRUE,
     time |-> UTCOfLocal(zone,
         (DaysFromCivil(year + month \div 12, (month % 12) + 1, 1) + date - 1)
             * MinutesPerDay + hour * MinutesPerHour)]

-----------------------------------------------------------------------------
(* Batch summary generator (src/unnamed/part_003) *)

Intervals == {"hourly", "daily", "weekly", "monthly"}

\* getIntervalKey: the start of the local hour, day, week or month, as an
\* ISO string; toISOString throws a RangeError on an Invalid Date
getIntervalKey(zone, timestamp, interval) ==
    LET f == LocalFields(zone, timestamp)
    IN toISOString(
        CASE interval = "hourly" -> NewLocalDate(zone, f.year, f.month, f.date, f.hour)
          [] interval = "weekly" -> NewLocalDate(zone, f.year, f.month, f.date - f.day, 0)
          [] interval = "monthly" -> NewLocalDate(zone, f.year, f.month, 1, 0)
          [] OTHER -> NewLocalDate(zone, f.year, f.month, f.date, 0))

\* a push that starts the group afresh with every reading
PushToGroupReplacing(groups, groupKey, reading) ==
    IF \E i \in 1..Len(groups) : groups[i].key = groupKey
    THEN [i \in 1..Len(groups) |->
            IF groups[i].key = groupKey
            THEN [groups[i] EXCEPT !.readings = <<reading>>]
            ELSE groups[i]]
    ELSE Append(groups, [key |-> groupKey, readings |-> <<reading>>])

\* groups[groupKey].push(reading), creating the group on its first reading;
\* groups is the object as its properties in insertion order
PushToGroup(groups, groupKey, reading) ==
    IF \E i \in 1..Len(groups) : groups[i].key = groupKey
    THEN [i \in 1..Len(groups) |->
            IF groups[i].key = groupKey
            THEN [groups[i] EXCEPT !.readings = Append(@, reading)]
            ELSE groups[i]]
    ELSE Append(groups, [key |-> groupKey, readings |-> <<reading>>])

\* groupDataByInterval, of readings with valid timestamps
RECURSIVE groupDataByInterval(_, _, _, _)
groupDataByInterval(zone, readings, interval, groups) ==
    IF readings = <<>> THEN groups
    ELSE groupDataByInterval(zone, Tail(readings), interval,
             PushToGroup(groups,
                 getIntervalKey(zone, DateParse(Head(readings).timestamp), interval),
                 Head(readings)))

\* calculatePeriodEnd
calculatePeriodEnd(zone, startTimestamp, interval) ==
    LET start == DateParse(startTimestamp)
        f == LocalFields(zone, start)
    IN toISOString(
        CASE interval = "hourly" -> [start EXCEPT !.time = @ + MinutesPerHour]
          [] interval = "weekly" -> [start EXCEPT !.time = @ + 7 * MinutesPerDay]
          [] interval = "monthly" -> NewLocalDate(zone, f.year, f.month + 1, f.date, 0)
          [] OTHER -> [start EXCEPT !.time = @ + MinutesPerDay])

\* Math.ceil
MathCeil(a) == Num(-((-a.n) \div a.d))

\* calculateExpectedReadings
calculateExpectedReadings(sensorCount, interval) ==
    LET readingsPerSensorPerHour == Rat(25, 100)
        hoursInInterval == CASE interval = "hourly" -> 1
                             [] interval = "weekly" -> 24 * 7
                             [] interval = "monthly" -> 24 * 30
                             [] OTHER -> 24
    IN MathCeil(Mul(Mul(Num(sensorCount), readingsPerSensorPerHour),
                    Num(hoursInInterval)))

\* Number.prototype.toFixed(1): the decimal string with one digit after the
\* point, kept as its number of tenths; "NaN" for NaN
toFixed1(a) ==
    IF IsNaN(a) THEN [text |-> "NaN", tenths |-> 0]
    ELSE [text |-> "decimal", tenths |-> Floor(Add(Mul(a, Num(10)), Rat(1, 2)))]

\* parseFloat of such a string
parseFloat(string) ==
    IF string.text = "NaN" THEN NaN ELSE Rat(string.tenths, 10)

\* value != null
NotNullish(q) == q.kind = "number"

\* the counts of generateQualityDistribution and calculateQualityDistribution
RECURSIVE CountClasses(_, _)
CountClasses(indices, dist) ==
    IF indices = <<>> THEN dist
    ELSE CountClasses(Tail(indices),
            IF Ge(Head(indices), Num(80)) THEN [dist EXCEPT !.excellent = @ + 1]
            ELSE IF Ge(Head(indices), Num(60)) THEN [dist EXCEPT !.good = @ + 1]
            ELSE IF Ge(Head(indices), Num(40)) THEN [dist EXCEPT !.fair = @ + 1]
            ELSE [dist EXCEPT !.poor = @ + 1])

NoneCounted == [excellent |-> 0, good |-> 0, fair |-> 0, poor |-> 0]

\* a rating whose breakpoints belong to the class below
getQualityRatingExclusive(qualityIndex) ==
    IF Gt(qualityIndex, Num(80)) THEN "excellent"
    ELSE IF Gt(qualityIndex, Num(60)) THEN "good"
    ELSE IF Gt(qualityIndex, Num(40)) THEN "fair"
    ELSE "poor"

\* getQualityRating(qualityIndex)
getQualityRating(qualityIndex) ==
    IF Ge(qualityIndex, Num(80)) THEN "excellent"
    ELSE IF Ge(qualityIndex, Num(60)) THEN "good"
    ELSE IF Ge(qualityIndex, Num(40)) THEN "fair"
    ELSE "poor"

Percent(count, total) == Mul(Div(Num(count), Num(total)), Num(100))

\* generateQualityDistribution
generateQualityDistribution(batchData) ==
    LET present == SelectSeq(batchData,
                       LAMBDA r : NotNullish(r.region_avg_quality_index))
        qualityIndices == [i \in 1..Len(present) |->
                              present[i].region_avg_quality_index.val]
        total == Len(qualityIndices)
        distribution == CountClasses(qualityIndices, NoneCounted)
    IN IF total = 0
       THEN [excellent |-> 0, good |-> 0, fair |-> 0, poor |-> 0, total |-> 0]
       ELSE [excellent |-> distribution.excellent, good |-> distribution.good,
             fair |-> distribution.fair, poor |-> distribution.poor,
             total |-> total,
             percentages |->
               [excellent |-> parseFloat(toFixed1(Percent(distribution.excellent, total))),
                good |-> parseFloat(toFixed1(Percent(distribution.good, total))),
                fair |-> parseFloat(toFixed1(Percent(distribution.fair, total))),
                poor |-> parseFloat(toFixed1(Percent(distribution.poor, total)))]]

\* completeness without the guard on expectedReadings, capped at 100
CompletenessCapped(actualReadings, expectedReadings) ==
    MathMin(Num(100), Mul(Div(Num(actualReadings), expectedReadings), Num(100)))

\* lines 137-139: expectedReadings > 0 ? (actualReadings / expectedReadings * 100) : 100
Completeness(actualReadings, expectedReadings) ==
    IF Gt(expectedReadings, Num(0))
    THEN Mul(Div(Num(actualReadings), expectedReadings), Num(100))
    ELSE Num(100)

\* generateSingleBatchSummary with the quality distribution added by
\* generateBatchSummaries (includeQualityDistribution defaults to true);
\* the per-parameter statistics are those of calculateStatistics
generateSingleBatchSummary(zone, batchData, timestamp, interval) ==
    LET uniqueRegions == Unique(<<>>, [i \in 1..Len(batchData) |-> batchData[i].region])
        uniqueSensors == Unique(<<>>, [i \in 1..Len(batchData) |-> batchData[i].sensor_id])
    IN [timestamp |-> timestamp,
        interval |-> interval,
        period_start |-> timestamp,
        period_end |-> calculatePeriodEnd(zone, timestamp, interval),
        total_readings |-> Len(batchData),
        regions_count |-> Len(uniqueRegions),
        sensors_count |-> Len(uniqueSensors),
        data_completeness_percentage |->
            parseFloat(toFixed1(Completeness(Len(batchData),
                calculateExpectedReadings(Len(uniqueSensors), interval)))),
        regions |-> uniqueRegions,
        sensors |-> uniqueSensors,
        quality_distribution |-> generateQualityDistribution(batchData)]

\* a sort that leaves the keys in insertion order
KeepInsertionOrder(done, rest) == done \o rest

\* Object.keys(groupedData).sort((a, b) => new Date(b) - new Date(a)): the
\* keys are distinct valid dates, so the comparator is a strict order
RECURSIVE SortNewestFirst(_, _)
SortNewestFirst(done, rest) ==
    IF rest = <<>> THEN done
    ELSE LET x == Head(rest)
             before == SelectSeq(done,
                 LAMBDA g : DateParse(g.key).time >= DateParse(x.key).time)
             behind == SelectSeq(done,
                 LAMBDA g : DateParse(g.key).time < DateParse(x.key).time)
         IN SortNewestFirst(before \o <<x>> \o behind, Tail(rest))

\* the data argument: an array of readings, or nothing (undefined)
Given(readings) == [given |-> TRUE, items |-> readings]
NotGiven == [given |-> FALSE, items |-> <<>>]

\* generateBatchSummaries(data, interval) in the time zone of the process
generateBatchSummaries(zone, arg, interval) ==
    IF ~arg.given \/ arg.items = <<>>
    THEN [raised |-> FALSE, result |-> <<>>]
    \* toISOString in getIntervalKey throws on an Invalid Date
    ELSE IF \E i \in 1..Len(arg.items) : ~arg.items[i].timestamp.valid
    THEN [raised |-> TRUE, result |-> <<>>]
    ELSE LET sorted == SortNewestFirst(<<>>,
                           groupDataByInterval(zone, arg.items, interval, <<>>))
         IN [raised |-> FALSE,
             result |-> [i \in 1..Len(sorted) |->
                 generateSingleBatchSummary(zone, sorted[i].readings, sorted[i].key,
                                            interval)]]

\* bound on the number of readings collected
MaxBatch == 3

BatchReading(timestamp, sensor, region, q) ==
    [timestamp |-> timestamp, sensor_id |-> sensor, region |-> region,
     region_avg_quality_index |-> q]

\* the readings a caller may collect: around the end of October 2025 and the
\* night of 2 November 2025, two of them within one hour from one sensor,
\* and one whose timestamp is no date
BatchReadings ==
    { BatchReading(ISOString(2025, 10, 31, 23, 30), "NOR-WQ-001", "North Coast",
                   Quality(Rat(853, 10))),
      BatchReading(ISOString(2025, 11, 2, 8, 15), "NOR-WQ-001", "North Coast",
                   Quality(Num(60))),
      BatchReading(ISOString(2025, 11, 2, 8, 45), "NOR-WQ-001", "North Coast",
                   NullQuality),
      BatchReading(ISOString(2025, 11, 2, 9, 30), "CEN-WQ-001", "Central Valley",
                   Quality(Rat(399, 10))),
      BatchReading(ISOString(2025, 11, 3, 7, 30), "CEN-WQ-001", "Central Valley",
                   Quality(Num(40))),
      BatchReading(NotADate, "CEN-WQ-001", "Central Valley", MissingQuality) }

InitBatch ==
    /\ batchInput = <<>>
    /\ timeZone \in TimeZones
    /\ batchCall = [fn |-> "none"]
    /\ cache = <<>>
    /\ now = 0
    /\ lastOp = NoOp
    /\ history = <<>>
    /\ calls = 0
    /\ ticks = 0
    /\ historicalData = [isArray |-> TRUE, items |-> <<>>]
    /\ randoms = <<>>
    /\ rngPos = 0
    /\ lastCall = [fn |-> "none"]
    /\ numbers = <<>>
    /\ aggCall = [fn |-> "none"]
    /\ sensorData = <<>>
    /\ dataCall = [fn |-> "none"]
    /\ detections = 0

\* the caller collects one more reading before it asks for summaries
Collect(reading) ==
    /\ Len(batchInput) < MaxBatch
    /\ batchCall.fn = "none"
    /\ batchInput' = Append(batchInput, reading)
    /\ UNCHANGED <<timeZone, batchCall, cacheVars, engineVars, aggregatorVars, readingVars>>

\* the caller evaluates generateBatchSummaries(batchInput, interval), once
BatchSummaries(interval) ==
    /\ batchCall.fn = "none"
    /\ batchCall' = [fn |-> "generateBatchSummaries", data |-> Given(batchInput),
                     interval |-> interval]
                    @@ generateBatchSummaries(timeZone, Given(batchInput), interval)
    /\ UNCHANGED <<batchInput, timeZone, cacheVars, engineVars, aggregatorVars, readingVars>>

\* the caller evaluates generateBatchSummaries(undefined, interval), once
BatchSummariesOfNothing(interval) ==
    /\ batchCall.fn = "none"
    /\ batchCall' = [fn |-> "generateBatchSummaries", data |-> NotGiven,
                     interval |-> interval]
                    @@ generateBatchSummaries(timeZone, NotGiven, interval)
    /\ UNCHANGED <<batchInput, timeZone, cacheVars, engineVars, aggregatorVars, readingVars>>

NextBatch ==
    \/ \E reading \in BatchReadings : Collect(reading)
    \/ \E interval \in Intervals : BatchSummaries(interval)
    \/ \E interval \in Intervals : BatchSummariesOfNothing(interval)

SpecBatch == InitBatch /\ [][NextBatch]_vars

-----------------------------------------------------------------------------
(* JavaScript numbers as IEEE 754 doubles: sign, odd integer m and exponent *)
(* e stand for sign * m * 2^e, with m below 2^53. m is kept as a natural    *)
(* number in limbs of 15 bits, least significant first, since it exceeds   *)
(* 32-bit integers. Every operation is exact and then                       *)
(* rounded to nearest, ties to even. Overflow, underflow, NaN and -0 do not *)
(* arise for the lists considered.                                          *)

LimbBits == 15
Base == 2 ^ LimbBits

\* the number of significant bits of a double
Precision == 53

\* without leading zero limbs
RECURSIVE Trim(_)
Trim(a) == IF a # <<>> /\ a[Len(a)] = 0 THEN Trim(SubSeq(a, 1, Len(a) - 1)) ELSE a

RECURSIVE BigOfInt(_)
BigOfInt(i) == IF i = 0 THEN <<>> ELSE <<i % Base>> \o BigOfInt(i \div Base)

RECURSIVE BigAddCarry(_, _, _)
BigAddCarry(a, b, carry) ==
    IF a = <<>> /\ b = <<>> THEN (IF carry = 0 THEN <<>> ELSE <<carry>>)
    ELSE LET x == (IF a = <<>> THEN 0 ELSE Head(a))
                  + (IF b = <<>> THEN 0 ELSE Head(b)) + carry
         IN <<x % Base>> \o BigAddCarry(IF a = <<>> THEN a ELSE Tail(a),
                                        IF b = <<>> THEN b ELSE Tail(b),
                                        x \div Base)

BigAdd(a, b) == BigAddCarry(a, b, 0)

\* a - b for a >= b
RECURSIVE BigSubBorrow(_, _, _)
BigSubBorrow(a, b, borrow) ==
    IF a = <<>> THEN <<>>
    ELSE LET x == Head(a) - (IF b = <<>> THEN 0 ELSE Head(b)) - borrow
         IN <<x % Base>> \o BigSubBorrow(Tail(a), IF b = <<>> THEN b ELSE Tail(b),
                                         IF x < 0 THEN 1 ELSE 0)

BigSub(a, b) == Trim(BigSubBorrow(a, b, 0))

\* -1, 0 or 1 as a is below, equal to or above b
RECURSIVE BigCmpFrom(_, _, _)
BigCmpFrom(a, b, i) ==
    IF i = 0 THEN 0
    ELSE IF a[i] < b[i] THEN -1
    ELSE IF a[i] > b[i] THEN 1
    ELSE BigCmpFrom(a, b, i - 1)

BigCmp(a, b) ==
    IF Len(a) < Len(b) THEN -1
    ELSE IF Len(a) > Len(b) THEN 1
    ELSE BigCmpFrom(a, b, Len(a))

\* a * k + carry for 0 <= k < Base
RECURSIVE BigMulSmall(_, _, _)
BigMulSmall(a, k, carry) ==
    IF a = <<>> THEN (IF carry = 0 THEN <<>> ELSE <<carry>>)
    ELSE LET x == Head(a) * k + carry
         IN <<x % Base>> \o BigMulSmall(Tail(a), k, x \div Base)

RECURSIVE BigMul(_, _)
BigMul(a, b) ==
    IF a = <<>> \/ b = <<>> THEN <<>>
    ELSE BigAdd(Trim(BigMulSmall(a, Head(b), 0)),
                IF Tail(b) = <<>> THEN <<>> ELSE <<0>> \o BigMul(a, Tail(b)))

\* quotient and remainder of a by k for 0 < k < Base, from the top limb down
RECURSIVE BigDivFrom(_, _, _, _, _)
BigDivFrom(a, k, i, rem, q) ==
    IF i = 0 THEN [q |-> Trim(q), r |-> rem]
    ELSE BigDivFrom(a, k, i - 1, (rem * Base + a[i]) % k,
                    <<(rem * Base + a[i]) \div k>> \o q)

BigDivSmall(a, k) == BigDivFrom(a, k, Len(a), 0, <<>>)

RECURSIVE IntBitLen(_)
IntBitLen(i) == IF i = 0 THEN 0 ELSE 1 + IntBitLen(i \div 2)

BitLen(a) == IF a = <<>> THEN 0 ELSE LimbBits * (Len(a) - 1) + IntBitLen(a[Len(a)])

\* a * 2^k
BigShl(a, k) ==
    IF a = <<>> THEN a
    ELSE [i \in 1..(k \div LimbBits) |-> 0]
         \o Trim(BigMulSmall(a, 2 ^ (k % LimbBits), 0))

\* floor(a / 2^k), and whether anything was cut off
BigShr(a, k) ==
    LET whole == k \div LimbBits
        upper == IF whole >= Len(a) THEN <<>> ELSE SubSeq(a, whole + 1, Len(a))
        d == BigDivSmall(upper, 2 ^ (k % LimbBits))
    IN [q |-> d.q,
        sticky |-> d.r # 0 \/ \E i \in 1..Len(a) : i <= whole /\ a[i] # 0]

IsOdd(a) == a # <<>> /\ a[1] % 2 = 1

Zero == [sign |-> 1, m |-> <<>>, e |-> 0]

\* the same value with m odd
RECURSIVE Canonical(_, _, _)
Canonical(sign, m, e) ==
    IF m = <<>> THEN Zero
    ELSE IF m[1] = 0 THEN Canonical(sign, Tail(m), e + LimbBits)
    ELSE IF m[1] % 2 = 0 THEN Canonical(sign, BigDivSmall(m, 2).q, e + 1)
    ELSE [sign |-> sign, m |-> m, e |-> e]

\* m cut to Precision bits given the bit after them and whether more follows
RoundCut(sign, cut, e, more) ==
    LET q == BigShr(cut.q, 1).q
        up == IsOdd(cut.q) /\ (cut.sticky \/ more \/ IsOdd(q))
    IN Canonical(sign, IF up THEN BigAdd(q, <<1>>) ELSE q, e)

\* the double nearest to sign * m * 2^e (a little more than that if sticky),
\* ties to even; a sticky m has more than Precision bits
RoundToDouble(sign, m, e, sticky) ==
    IF BitLen(m) <= Precision THEN Canonical(sign, m, e)
    ELSE RoundCut(sign, BigShr(m, BitLen(m) - Precision - 1),
                  e + BitLen(m) - Precision, sticky)

FromInt(i) == RoundToDouble(IF i < 0 THEN -1 ELSE 1, BigOfInt(Abs(i)), 0, FALSE)

DivideRounded(sign, d, e) == RoundToDouble(sign, d.q, e, d.r # 0)

\* the double a decimal literal n/d denotes (0 < d < Base)
FromDecimal(a) ==
    DivideRounded(IF a.n < 0 THEN -1 ELSE 1,
                  BigDivSmall(BigShl(BigOfInt(Abs(a.n)), 5 * LimbBits), a.d),
                  -5 * LimbBits)

\* x / k for an integer 0 < k < Base (the count of a list)
FDivInt(x, k) ==
    DivideRounded(x.sign, BigDivSmall(BigShl(x.m, 5 * LimbBits), k),
                  x.e - 5 * LimbBits)

\* the magnitudes of x and y as multiples of the same power of two
AlignedM(x, y) == BigShl(x.m, x.e - Min2(x.e, y.e))

AddAligned(x, y, mx, my, e) ==
    IF x.sign = y.sign THEN RoundToDouble(x.sign, BigAdd(mx, my), e, FALSE)
    ELSE IF BigCmp(mx, my) >= 0 THEN RoundToDouble(x.sign, BigSub(mx, my), e, FALSE)
    ELSE RoundToDouble(y.sign, BigSub(my, mx), e, FALSE)

\* x + y
FAdd(x, y) ==
    IF x.m = <<>> THEN y
    ELSE IF y.m = <<>> THEN x
    ELSE AddAligned(x, y, AlignedM(x, y), AlignedM(y, x), Min2(x.e, y.e))

FNeg(x) == IF x.m = <<>> THEN x ELSE [x EXCEPT !.sign = -x.sign]

\* x - y
FSub(x, y) == FAdd(x, FNeg(y))

\* x * y
FMul(x, y) == RoundToDouble(x.sign * y.sign, BigMul(x.m, y.m), x.e + y.e, FALSE)

CmpAligned(x, mx, my) == x.sign * BigCmp(mx, my)

\* -1, 0 or 1 as x is below, equal to or above y
FCmp(x, y) ==
    IF x.m = <<>> /\ y.m = <<>> THEN 0
    ELSE IF x.m = <<>> THEN -y.sign
    ELSE IF y.m = <<>> THEN x.sign
    ELSE IF x.sign # y.sign THEN x.sign
    ELSE CmpAligned(x, AlignedM(x, y), AlignedM(y, x))

FLe(x, y) == FCmp(x, y) <= 0
FLt(x, y) == FCmp(x, y) < 0

\* the integer square root, found bit by bit from the top
Fits(n, candidate) == BigCmp(BigMul(candidate, candidate), n) <= 0

WithBit(r, bit) == BigAdd(r, BigShl(<<1>>, bit))

LargerRoot(n, r, candidate) == IF Fits(n, candidate) THEN candidate ELSE r

RootBit(n, r, bit) == LargerRoot(n, r, WithBit(r, bit))

\* the four bits below bit top
LowBits(n, r, top) ==
    RootBit(n, RootBit(n, RootBit(n, RootBit(n, r, top - 1), top - 2), top - 3), top - 4)

\* floor(sqrt(n)), decided from the top bit down in places of five bits
RECURSIVE BigISqrtFrom(_, _, _)
BigISqrtFrom(n, r, place) ==
    IF place < 0 THEN r
    ELSE IF Fits(n, WithBit(r, 5 * place + 4))
    THEN BigISqrtFrom(n, LowBits(n, WithBit(r, 5 * place + 4), 5 * place + 4), place - 1)
    ELSE BigISqrtFrom(n, LowBits(n, r, 5 * place + 4), place - 1)

BigISqrt(n) == BigISqrtFrom(n, <<>>, BitLen(n) \div 10)

SqrtRounded(n, root, e) == RoundToDouble(1, root, e, BigCmp(BigMul(root, root), n) # 0)

SqrtShifted(n, e) == SqrtRounded(n, BigISqrt(n), e)

\* the shift that brings m to 110 or 111 bits and leaves an even exponent
SqrtShift(x, least) == least + ((x.e - least) % 2)

SqrtOf(x, shift) == SqrtShifted(BigShl(x.m, shift), (x.e - shift) \div 2)

\* Math.sqrt(x) for x >= 0: the root of the shifted m has at least 55 bits
MathSqrtDouble(x) ==
    IF x.m = <<>> THEN Zero
    ELSE SqrtOf(x, SqrtShift(x, 2 * (Precision + 2) - BitLen(x.m)))

-----------------------------------------------------------------------------
(* Data aggregator (src/unnamed/part_004) *)

\* a numeric literal as the double the engine reads it as
Doubles(literals) == [i \in 1..Len(literals) |-> FromDecimal(literals[i])]

IsNegative(x) == x.sign = -1 /\ x.m # <<>>

\* the place Array.prototype.sort gives v among the sorted elements under the
\* comparator (a, b) => a - b: before the first element it compares below
RECURSIVE NumericPos(_, _, _)
NumericPos(sorted, v, i) ==
    IF i > Len(sorted) \/ IsNegative(FSub(v, sorted[i])) THEN i
    ELSE NumericPos(sorted, v, i + 1)

\* [...values].sort((a, b) => a - b)
RECURSIVE SortNumeric(_, _)
SortNumeric(sorted, rest) ==
    IF rest = <<>> THEN sorted
    ELSE SortNumeric(InsertAt(sorted, NumericPos(sorted, Head(rest), 1) - 1, Head(rest)),
                     Tail(rest))

\* values.reduce((acc, val) => acc + val, 0)
RECURSIVE SumDoubles(_, _)
SumDoubles(acc, rest) ==
    IF rest = <<>> THEN acc ELSE SumDoubles(FAdd(acc, Head(rest)), Tail(rest))

\* the median of a sorted list of count > 0 elements
MedianOf(sortedValues, count) ==
    IF count % 2 = 0
    THEN FDivInt(FAdd(sortedValues[count \div 2], sortedValues[count \div 2 + 1]), 2)
    ELSE sortedValues[count \div 2 + 1]

\* values.reduce((acc, val) => acc + Math.pow(val - average, 2), 0), with
\* Math.pow(x, 2) taken as the correctly rounded square
RECURSIVE SumSquares(_, _, _)
SumSquares(acc, rest, average) ==
    IF rest = <<>> THEN acc
    ELSE SumSquares(FAdd(acc, FMul(FSub(Head(rest), average), FSub(Head(rest), average))),
                    Tail(rest), average)

NoStatistics ==
    [min |-> Zero, max |-> Zero, average |-> Zero, median |-> Zero,
     stdDev |-> Zero, count |-> 0]

StatisticsOf(values, sortedValues, count, average) ==
    [min |-> sortedValues[1],
     max |-> sortedValues[count],
     average |-> average,
     median |-> MedianOf(sortedValues, count),
     stdDev |-> MathSqrtDouble(FDivInt(SumSquares(Zero, values, average), count)),
     count |-> count]

\* calculateStatistics(values)
calculateStatistics(arg) ==
    IF ~arg.given \/ arg.items = <<>> THEN NoStatistics
    ELSE StatisticsOf(arg.items, SortNumeric(<<>>, arg.items), Len(arg.items),
                      FDivInt(SumDoubles(Zero, arg.items), Len(arg.items)))

PercentagesOf(distribution, total) ==
    [excellent |-> toFixed1(Percent(distribution.excellent, total)),
     good |-> toFixed1(Percent(distribution.good, total)),
     fair |-> toFixed1(Percent(distribution.fair, total)),
     poor |-> toFixed1(Percent(distribution.poor, total))]

DistributionOf(distribution, total) ==
    [excellent |-> distribution.excellent, good |-> distribution.good,
     fair |-> distribution.fair, poor |-> distribution.poor,
     total |-> total, percentages |-> PercentagesOf(distribution, total)]

\* calculateQualityDistribution(qualityIndices); the percentages stay the
\* strings toFixed(1) returns
calculateQualityDistribution(arg) ==
    IF ~arg.given \/ arg.items = <<>>
    THEN [excellent |-> 0, good |-> 0, fair |-> 0, poor |-> 0, total |-> 0]
    ELSE DistributionOf(CountClasses(arg.items, NoneCounted), Len(arg.items))

-----------------------------------------------------------------------------
(* Data aggregator: the caller's list of numbers and the calls *)

MaxValues == 3

\* numeric literals: a value without a finite binary expansion, and values at
\* and just below the breakpoints of the quality classes
Literals == {Rat(1, 10), Rat(399, 10), Num(40), Num(60), Num(80)}

InitAggregator ==
    /\ numbers = <<>>
    /\ aggCall = [fn |-> "none"]
    /\ sensorData = <<>>
    /\ dataCall = [fn |-> "none"]
    /\ detections = 0
    /\ cache = <<>>
    /\ now = 0
    /\ lastOp = NoOp
    /\ history = <<>>
    /\ calls = 0
    /\ ticks = 0
    /\ historicalData = [isArray |-> TRUE, items |-> <<>>]
    /\ randoms = <<>>
    /\ rngPos = 0
    /\ lastCall = NoCall
    /\ batchInput = <<>>
    /\ timeZone = "UTC"
    /\ batchCall = [fn |-> "none"]

\* the caller appends one number to its list
Measure(literal) ==
    /\ Len(numbers) < MaxValues
    /\ aggCall.fn = "none"
    /\ numbers' = Append(numbers, literal)
    /\ UNCHANGED <<aggCall, cacheVars, engineVars, batchVars, readingVars>>

\* the caller evaluates calculateStatistics(numbers), once
Statistics ==
    /\ aggCall.fn = "none"
    /\ \E out \in {calculateStatistics(Given(Doubles(numbers)))} :
           aggCall' = [fn |-> "calculateStatistics", values |-> Given(Doubles(numbers)),
                       result |-> out]
    /\ UNCHANGED <<numbers, cacheVars, engineVars, batchVars, readingVars>>

\* the caller evaluates calculateStatistics(undefined), once
StatisticsOfNothing ==
    /\ aggCall.fn = "none"
    /\ aggCall' = [fn |-> "calculateStatistics", values |-> NotGiven,
                   result |-> calculateStatistics(NotGiven)]
    /\ UNCHANGED <<numbers, cacheVars, engineVars, batchVars, readingVars>>

\* the caller evaluates calculateQualityDistribution(numbers), once
QualityDistribution ==
    /\ aggCall.fn = "none"
    /\ aggCall' = [fn |-> "calculateQualityDistribution", values |-> Given(numbers),
                   result |-> calculateQualityDistribution(Given(numbers))]
    /\ UNCHANGED <<numbers, cacheVars, engineVars, batchVars, readingVars>>

\* the caller evaluates calculateQualityDistribution(undefined), once
QualityDistributionOfNothing ==
    /\ aggCall.fn = "none"
    /\ aggCall' = [fn |-> "calculateQualityDistribution", values |-> NotGiven,
                   result |-> calculateQualityDistribution(NotGiven)]
    /\ UNCHANGED <<numbers, cacheVars, engineVars, batchVars, readingVars>>

NextAggregator ==
    \/ \E literal \in Literals : Measure(literal)
    \/ Statistics
    \/ StatisticsOfNothing
    \/ QualityDistribution
    \/ QualityDistributionOfNothing

SpecAggregator == InitAggregator /\ [][NextAggregator]_vars

-----------------------------------------------------------------------------
(* Anomaly detection (part_004 detectAnomalies, part_003 detectBatchAnomalies) *)

\* a bound that a threshold object does not carry reads as undefined
NoBound == MissingQuality

\* the thresholds argument: for each parameter either no property or an
\* object with some of the bounds min and max
NoThreshold == [given |-> FALSE, min |-> NoBound, max |-> NoBound]
Threshold(min, max) == [given |-> TRUE, min |-> min, max |-> max]

\* lines 251-256
defaultThresholds ==
    [temperature |-> Threshold(Quality(Num(10)), Quality(Num(35))),
     pH |-> Threshold(Quality(Num(6)), Quality(Num(9))),
     turbidity |-> Threshold(NoBound, Quality(Num(10))),
     quality_index |-> Threshold(Quality(Num(20)), NoBound)]

\* a merge that keeps every default bound the caller's object leaves out
SpreadDeep(defaults, thresholds) ==
    [p \in DOMAIN defaults |->
        Threshold(IF thresholds[p].min.kind = "missing" THEN defaults[p].min
                  ELSE thresholds[p].min,
                  IF thresholds[p].max.kind = "missing" THEN defaults[p].max
                  ELSE thresholds[p].max)]

\* { ...defaultThresholds, ...thresholds }: each property of the caller's
\* object replaces the default object of that parameter as a whole
Spread(defaults, thresholds) ==
    [p \in DOMAIN defaults |->
        IF thresholds[p].given THEN thresholds[p] ELSE defaults[p]]

\* value < bound and value > bound: both sides are converted to numbers
\* (null to 0, undefined to NaN) and a comparison with NaN is false
Under(value, bound) == Lt(ToNumber(value), ToNumber(bound))
Over(value, bound) == Gt(ToNumber(value), ToNumber(bound))

\* the anomalies array the filter callback builds for one reading (lines 262-279)
AnomaliesOf(reading, finalThresholds) ==
    (IF Under(reading.temperature, finalThresholds.temperature.min)
        \/ Over(reading.temperature, finalThresholds.temperature.max)
     THEN <<"temperature">> ELSE <<>>)
    \o (IF Under(reading.pH, finalThresholds.pH.min)
           \/ Over(reading.pH, finalThresholds.pH.max)
        THEN <<"pH">> ELSE <<>>)
    \o (IF Over(reading.turbidity, finalThresholds.turbidity.max)
        THEN <<"turbidity">> ELSE <<>>)
    \o (IF Under(reading.region_avg_quality_index, finalThresholds.quality_index.min)
        THEN <<"quality_index">> ELSE <<>>)

\* the reading after the callback: reading.anomalies is assigned only when
\* the array is not empty (lines 281-284)
Annotated(reading, anomalies) ==
    IF anomalies # <<>> THEN [reading EXCEPT !.anomalies = Given(anomalies)]
    ELSE reading

\* detectAnomalies(data, thresholds): the array returned and the caller's
\* array afterwards; the returned elements are the caller's objects
detectAnomalies(data, thresholds) ==
    LET finalThresholds == Spread(defaultThresholds, thresholds)
        after == [i \in 1..Len(data) |->
                     Annotated(data[i], AnomaliesOf(data[i], finalThresholds))]
        kept == SelectSeq([i \in 1..Len(data) |-> i],
                    LAMBDA i : AnomaliesOf(data[i], finalThresholds) # <<>>)
    IN [result |-> [k \in 1..Len(kept) |-> after[kept[k]]],
        indices |-> kept,
        data |-> after]

\* the quality index under which detectBatchAnomalies reports (line 397)
PoorQualityIndex == 30

\* the issues array detectBatchAnomalies builds for one reading (lines 379-399)
IssuesOf(reading) ==
    (IF Under(reading.temperature, Quality(Num(10)))
        \/ Over(reading.temperature, Quality(Num(35)))
     THEN <<"temperature_out_of_range">> ELSE <<>>)
    \o (IF Under(reading.pH, Quality(Num(6))) \/ Over(reading.pH, Quality(Num(9)))
        THEN <<"pH_out_of_range">> ELSE <<>>)
    \o (IF Over(reading.turbidity, Quality(Num(10)))
        THEN <<"high_turbidity">> ELSE <<>>)
    \o (IF Under(reading.region_avg_quality_index, Quality(Num(PoorQualityIndex)))
        THEN <<"poor_quality_index">> ELSE <<>>)

\* the entry pushed for an anomalous reading (lines 402-413)
BatchAnomaly(reading, issues) ==
    [timestamp |-> reading.timestamp, sensor_id |-> reading.sensor_id,
     region |-> reading.region, issues |-> issues,
     values |-> [temperature |-> reading.temperature, pH |-> reading.pH,
                 turbidity |-> reading.turbidity,
                 quality_index |-> reading.region_avg_quality_index]]

\* detectBatchAnomalies(batchData)
detectBatchAnomalies(batchData) ==
    LET flagged == SelectSeq(batchData, LAMBDA reading : IssuesOf(reading) # <<>>)
    IN [i \in 1..Len(flagged) |-> BatchAnomaly(flagged[i], IssuesOf(flagged[i]))]

\* the buckets of generateBatchSummaries, newest first
BucketsOf(zone, readings, interval) ==
    SortNewestFirst(<<>>, groupDataByInterval(zone, readings, interval, <<>>))

\* generateBatchSummaries(data, interval, { includeAnomalies: true }) on
\* readings with valid timestamps
generateBatchSummariesWithAnomalies(zone, readings, interval) ==
    IF readings = <<>> THEN <<>>
    ELSE LET sorted == BucketsOf(zone, readings, interval)
         IN [i \in 1..Len(sorted) |->
                [summary |-> generateSingleBatchSummary(zone, sorted[i].readings,
                                 sorted[i].key, interval),
                 anomalies |-> detectBatchAnomalies(sorted[i].readings)]]

-----------------------------------------------------------------------------
(* Trend analysis (part_004 calculateTrend): division of doubles, NaN and *)
(* Infinity, toFixed and parseFloat                                        *)

\* the largest digit in lo..hi whose product with b does not exceed rem
RECURSIVE DigitFrom(_, _, _, _)
DigitFrom(rem, b, lo, hi) ==
    IF lo = hi THEN lo
    ELSE IF BigCmp(Trim(BigMulSmall(b, (lo + hi + 1) \div 2, 0)), rem) <= 0
    THEN DigitFrom(rem, b, (lo + hi + 1) \div 2, hi)
    ELSE DigitFrom(rem, b, lo, (lo + hi + 1) \div 2 - 1)

\* quotient and remainder of a by b > 0, limb by limb from the top
RECURSIVE BigDivBy(_, _, _, _, _)
BigDivDigit(a, b, i, rem, q, digit) ==
    BigDivBy(a, b, i - 1, BigSub(rem, Trim(BigMulSmall(b, digit, 0))), <<digit>> \o q)

BigDivStep(a, b, i, rem, q) == BigDivDigit(a, b, i, rem, q, DigitFrom(rem, b, 0, Base - 1))

BigDivBy(a, b, i, rem, q) ==
    IF i = 0 THEN [q |-> Trim(q), r |-> rem]
    ELSE BigDivStep(a, b, i, Trim(<<a[i]>> \o rem), q)

BigDiv(a, b) == BigDivBy(a, b, Len(a), <<>>, <<>>)

\* the shift of a that gives a quotient by b of more than Precision + 1 bits
QuotientShift(a, b) == Max2(0, Precision + 3 + BitLen(b) - BitLen(a))

RoundedQuotient(sign, d, e) == RoundToDouble(sign, d.q, e, d.r # <<>>)

\* the double nearest to sign * (a / b) * 2^e, for b > 0
DivideBig(sign, a, b, shift, e) ==
    RoundedQuotient(sign, BigDiv(BigShl(a, shift), b), e - shift)

\* a Number: a finite double, NaN, or an Infinity of either sign; the two
\* zeros, which compare equal, are not told apart
Finite(x) == [kind |-> "finite", val |-> x]
NotANumber == [kind |-> "NaN", val |-> Zero]
Infinite(sign) == [kind |-> "Infinity", val |-> [Zero EXCEPT !.sign = sign]]

\* x / y for finite doubles
FDiv(x, y) ==
    IF y.m = <<>> THEN (IF x.m = <<>> THEN NotANumber ELSE Infinite(x.sign))
    ELSE Finite(DivideBig(x.sign * y.sign, x.m, y.m, QuotientShift(x.m, y.m),
                          x.e - y.e))

\* numerator / Math.sqrt(product): the root of a negative number is NaN
OverRoot(numerator, product) ==
    IF product.m # <<>> /\ product.sign < 0 THEN NotANumber
    ELSE FDiv(numerator, MathSqrtDouble(product))

\* value * 100
TimesHundred(value) ==
    IF value.kind = "finite" THEN Finite(FMul(value.val, FromInt(100))) ELSE value

\* 10^digits
PowerOfTen(digits) == BigOfInt(10 ^ digits)

\* the integer nearest to m * 2^e, the larger one of two
NearestInteger(m, e) ==
    IF e >= 0 THEN BigShl(m, e)
    ELSE BigShr(BigAdd(BigShl(m, 1), BigShl(<<1>>, -e)), 1 - e).q

\* Number.prototype.toFixed(digits) of a Number below 10^21 in magnitude:
\* the decimal string, kept as its sign and its digits without the point
toFixed(value, digits) ==
    IF value.kind = "NaN" THEN [text |-> "NaN", sign |-> 1, units |-> <<>>]
    ELSE IF value.kind = "Infinity"
    THEN [text |-> "Infinity", sign |-> value.val.sign, units |-> <<>>]
    ELSE [text |-> "decimal", sign |-> value.val.sign,
          units |-> NearestInteger(BigMul(value.val.m, PowerOfTen(digits)),
                                   value.val.e)]

\* parseFloat of such a string with the given number of digits after the point
parseFloatOf(string, digits) ==
    IF string.text = "NaN" THEN NotANumber
    ELSE IF string.text = "Infinity" THEN Infinite(string.sign)
    ELSE Finite(DivideBig(string.sign, string.units, PowerOfTen(digits),
                          QuotientShift(string.units, PowerOfTen(digits)), 0))

\* milliseconds in a minute
MillisecondsPerMinute == 60000

\* new Date(timestamp).getTime(), of a valid date
getTime(timestamp) ==
    FMul(FromInt(DateParse(timestamp).time), FromInt(MillisecondsPerMinute))

\* array.reduce((sum, x) => sum + x, 0)
RECURSIVE ReduceSum(_, _)
ReduceSum(values, sum) ==
    IF values = <<>> THEN sum ELSE ReduceSum(Tail(values), FAdd(sum, Head(values)))

Products(xs, ys) == [i \in 1..Len(xs) |-> FMul(xs[i], ys[i])]

InsufficientTrend ==
    [trend |-> "insufficient_data", slope |-> Finite(Zero),
     correlation |-> Finite(Zero), change_percentage |-> Finite(Zero)]

\* Math.abs(changePercentage) > 5
ChangedMuch(changePercentage) ==
    \/ changePercentage.kind = "Infinity"
    \/ /\ changePercentage.kind = "finite"
       /\ FLt(FromInt(5), [changePercentage.val EXCEPT !.sign = 1])

\* changePercentage > 0
Positive(changePercentage) ==
    /\ changePercentage.kind # "NaN"
    /\ changePercentage.val.sign > 0
    /\ changePercentage.kind = "Infinity" \/ changePercentage.val.m # <<>>

\* lines 336-339
TrendOf(changePercentage) ==
    IF ChangedMuch(changePercentage)
    THEN (IF Positive(changePercentage) THEN "increasing" ELSE "decreasing")
    ELSE "stable"

\* lines 326-349, from the sums of the regression
TrendFrom(n, sumX, sumY, sumXY, sumXX, sumYY, firstValue, lastValue, changePercentage) ==
    [trend |-> TrendOf(changePercentage),
     slope |-> parseFloatOf(toFixed(
         FDiv(FSub(FMul(FromInt(n), sumXY), FMul(sumX, sumY)),
              FSub(FMul(FromInt(n), sumXX), FMul(sumX, sumX))), 6), 6),
     correlation |-> parseFloatOf(toFixed(
         OverRoot(FSub(FMul(FromInt(n), sumXY), FMul(sumX, sumY)),
                  FMul(FSub(FMul(FromInt(n), sumXX), FMul(sumX, sumX)),
                       FSub(FMul(FromInt(n), sumYY), FMul(sumY, sumY)))), 3), 3),
     change_percentage |-> parseFloatOf(toFixed(changePercentage, 2), 2),
     first_value |-> firstValue,
     last_value |-> lastValue,
     data_points |-> n]

\* lines 318-349
Regression(values, timestamps) ==
    TrendFrom(Len(values),
              ReduceSum(timestamps, Zero), ReduceSum(values, Zero),
              ReduceSum(Products(timestamps, values), Zero),
              ReduceSum(Products(timestamps, timestamps), Zero),
              ReduceSum(Products(values, values), Zero),
              values[1], values[Len(values)],
              TimesHundred(FDiv(FSub(values[Len(values)], values[1]), values[1])))

\* data.map(reading => reading[parameter]).filter(val => val != null), as doubles
ValuesOf(data, parameter) ==
    LET present == SelectSeq(data, LAMBDA reading : NotNullish(reading[parameter]))
    IN [i \in 1..Len(present) |-> FromDecimal(present[i][parameter].val)]

\* calculateTrend(data, parameter) on an array of readings with valid timestamps
calculateTrend(data, parameter) ==
    IF Len(data) < 2 THEN InsufficientTrend
    ELSE IF Len(ValuesOf(data, parameter)) # Len(data)
            \/ Len(ValuesOf(data, parameter)) < 2
    THEN InsufficientTrend
    ELSE Regression(ValuesOf(data, parameter),
                    [i \in 1..Len(data) |-> getTime(data[i].timestamp)])

-----------------------------------------------------------------------------
(* Reading objects: the caller's array and the calls *)

\* bounds on the readings held and on the detectAnomalies calls made
MaxSensorData == 3
MaxDetections == 2

SensorReading(timestamp, sensor, temperature, pH, turbidity, q) ==
    [timestamp |-> timestamp, sensor_id |-> sensor, region |-> "North Coast",
     temperature |-> temperature, pH |-> pH, turbidity |-> turbidity,
     region_avg_quality_index |-> q, anomalies |-> NotGiven]

\* the readings a caller may hold, taken on the morning of 2 November 2025:
\* one within all limits, one too cold, one whose temperature and turbidity
\* are null, one with a quality index between 20 and 30, and one too turbid
\* and too alkaline that lacks the quality index
SensorReadings ==
    { SensorReading(ISOString(2025, 11, 2, 8, 15), "NOR-WQ-001",
                    Quality(Num(20)), Quality(Num(7)), Quality(Num(2)),
                    Quality(Rat(853, 10))),
      SensorReading(ISOString(2025, 11, 2, 8, 45), "NOR-WQ-001",
                    Quality(Num(5)), Quality(Num(7)), Quality(Num(2)),
                    Quality(Num(60))),
      SensorReading(ISOString(2025, 11, 2, 9, 15), "NOR-WQ-002",
                    NullQuality, Quality(Num(7)), NullQuality,
                    Quality(Num(70))),
      SensorReading(ISOString(2025, 11, 2, 9, 45), "NOR-WQ-002",
                    Quality(Num(21)), Quality(Num(7)), Quality(Num(2)),
                    Quality(Num(25))),
      SensorReading(ISOString(2025, 11, 2, 10, 15), "NOR-WQ-001",
                    Quality(Num(32)), Quality(Rat(95, 10)), Quality(Num(12)),
                    MissingQuality) }

NoThresholds ==
    [temperature |-> NoThreshold, pH |-> NoThreshold, turbidity |-> NoThreshold,
     quality_index |-> NoThreshold]

\* the thresholds arguments: none, { temperature: { max: 30 } },
\* { quality_index: { min: 50 } }, and limits no reading violates
ThresholdArguments ==
    { NoThresholds,
      [NoThresholds EXCEPT !.temperature = Threshold(NoBound, Quality(Num(30)))],
      [NoThresholds EXCEPT !.quality_index = Threshold(Quality(Num(50)), NoBound)],
      [temperature |-> Threshold(Quality(Num(-50)), Quality(Num(100))),
       pH |-> Threshold(Quality(Num(-1)), Quality(Num(14))),
       turbidity |-> Threshold(NoBound, Quality(Num(1000))),
       quality_index |-> Threshold(Quality(Num(-1)), NoBound)] }

InitReadings ==
    /\ sensorData = <<>>
    /\ dataCall = [fn |-> "none"]
    /\ detections = 0
    /\ timeZone \in TimeZones
    /\ numbers = <<>>
    /\ aggCall = [fn |-> "none"]
    /\ cache = <<>>
    /\ now = 0
    /\ lastOp = NoOp
    /\ history = <<>>
    /\ calls = 0
    /\ ticks = 0
    /\ historicalData = [isArray |-> TRUE, items |-> <<>>]
    /\ randoms = <<>>
    /\ rngPos = 0
    /\ lastCall = NoCall
    /\ batchInput = <<>>
    /\ batchCall = [fn |-> "none"]

\* the caller adds one reading object to its array, before the first call
Record(reading) ==
    /\ Len(sensorData) < MaxSensorData
    /\ dataCall.fn = "none"
    /\ sensorData' = Append(sensorData, reading)
    /\ UNCHANGED <<dataCall, detections, cacheVars, engineVars, batchVars,
                   aggregatorVars>>

\* the caller evaluates detectAnomalies(sensorData, thresholds)
Detect(thresholds) ==
    /\ detections < MaxDetections
    /\ dataCall.fn \in {"none", "detectAnomalies"}
    /\ \E out \in {detectAnomalies(sensorData, thresholds)} :
          /\ sensorData' = out.data
          /\ dataCall' = [fn |-> "detectAnomalies", thresholds |-> thresholds,
                          before |-> sensorData, result |-> out.result,
                          indices |-> out.indices]
    /\ detections' = detections + 1
    /\ UNCHANGED <<cacheVars, engineVars, batchVars, aggregatorVars>>

\* the caller evaluates
\* generateBatchSummaries(sensorData, interval, { includeAnomalies: true })
BatchAnomalies(interval) ==
    /\ dataCall.fn = "none"
    /\ dataCall' = [fn |-> "generateBatchSummaries", interval |-> interval,
                    before |-> sensorData,
                    result |-> generateBatchSummariesWithAnomalies(timeZone,
                                   sensorData, interval)]
    /\ UNCHANGED <<sensorData, detections, cacheVars, engineVars, batchVars,
                   aggregatorVars>>

\* the parameters a trend is asked for
Parameters == {"temperature", "region_avg_quality_index"}

\* the caller evaluates calculateTrend(sensorData, parameter)
Trend(parameter) ==
    /\ dataCall.fn = "none"
    /\ \E out \in {calculateTrend(sensorData, parameter)} :
          dataCall' = [fn |-> "calculateTrend", parameter |-> parameter,
                       before |-> sensorData, result |-> out]
    /\ UNCHANGED <<sensorData, detections, cacheVars, engineVars, batchVars,
                   aggregatorVars>>

NextReadings ==
    \/ \E reading \in SensorReadings : Record(reading)
    \/ \E thresholds \in ThresholdArguments : Detect(thresholds)
    \/ \E interval \in Intervals : BatchAnomalies(interval)
    \/ \E parameter \in Parameters : Trend(parameter)

SpecReadings == InitReadings /\ [][NextReadings]_vars

-----------------------------------------------------------------------------
(* Forecasting engine: properties *)

\* the readings of the array the last call was given that pass its region filter
Remaining(call) ==
    SelectSeq(call.before.items,
              LAMBDA r : call.region = NULL \/ r.region = call.region)

\* { success: false, error, forecast_quality_index: [], trend: 'unknown' }
FailureShape(result) ==
    /\ DOMAIN result = {"success", "error", "forecast_quality_index", "trend"}
    /\ result.success = FALSE
    /\ result.forecast_quality_index = <<>>
    /\ result.trend = "unknown"

\* the latest day among the readings
RECURSIVE MaxDay(_)
MaxDay(readings) ==
    IF Len(readings) = 1 THEN readings[1].timestamp.day
    ELSE Max2(readings[1].timestamp.day, MaxDay(Tail(readings)))

C2_NeverRaises ==
    lastCall.fn = "forecast" =>
        /\ ~lastCall.raised
        /\ lastCall.result.success = TRUE \/ FailureShape(lastCall.result)

\* a call whose body threw something other than the engine's own Error
C2_Witness ==
    /\ lastCall.fn = "forecast" /\ ~WellFormed(lastCall.before)
    /\ lastCall.result.success = FALSE
    /\ lastCall.result.error # InsufficientData

InRange(x) == Ge(x, Num(0)) /\ Le(x, Num(100))

\* C3: every point of a successful forecast has quality_index, lower and upper
\* bound of the confidence interval within [0, 100].
C3_ForecastInRange ==
    (lastCall.fn = "forecast" /\ WellFormed(lastCall.before)
        /\ lastCall.result.success = TRUE) =>
        \A k \in 1..Len(lastCall.result.forecast_quality_index) :
            LET point == lastCall.result.forecast_quality_index[k]
            IN /\ InRange(point.quality_index)
               /\ Ge(point.confidence_interval.lower, Num(0))
               /\ Le(point.confidence_interval.upper, Num(100))

C5_ArrayUnchanged ==
    (lastCall.fn \in {"forecast", "regional"} /\ WellFormed(lastCall.before)) =>
        historicalData = lastCall.before

\* the confidence levels of the 7 forecast days, in hundred-thousandths
ConfidenceLevels == <<95000, 85975, 77805, 70395, 63650, 57665, 52155>>

\* C11: in every successful forecast confidence_level is non-increasing over
\* day_offset 1..7, stays within [0.5, 0.95], is strictly greater on day 1
\* than on day 7, and is the same whatever the historical values are.
C11_ConfidenceLevel ==
    (lastCall.fn = "forecast" /\ lastCall.result.success = TRUE) =>
        LET level == [k \in 1..7 |->
                lastCall.result.forecast_quality_index[k].confidence_interval
                    .confidence_level]
        IN /\ \A k \in 1..6 : Ge(level[k], level[k + 1])
           /\ \A k \in 1..7 : Ge(level[k], Rat(1, 2)) /\ Le(level[k], Rat(95, 100))
           /\ Gt(level[1], level[7])
           /\ \A k \in 1..7 : level[k] = Rat(ConfidenceLevels[k], 100000)

\* a successful forecast whose quality indices are all NaN
C11_Witness ==
    /\ lastCall.fn = "forecast" /\ lastCall.result.success = TRUE
    /\ \A k \in 1..7 : IsNaN(lastCall.result.forecast_quality_index[k].quality_index)

\* the slope fitted over the recent window of the readings the call used
FittedSlope(call) ==
    LET recentData == SliceLast(ArraySort("linear", Remaining(call)), 30)
    IN calculateLinearRegression(
           [i \in 1..Len(recentData) |->
               [x |-> i - 1, y |-> QualityOf(recentData[i])]]).slope

\* C12: a successful forecast has trend 'stable' when |slope| < 0.5,
\* 'improving' when slope >= 0.5 and 'declining' when slope <= -0.5, never
\* 'unknown'; a failed forecast always has trend 'unknown'.
C12_TrendLabel ==
    (lastCall.fn = "forecast" /\ WellFormed(lastCall.before)) =>
        IF lastCall.result.success = TRUE
        THEN /\ lastCall.result.trend \in {"stable", "improving", "declining"}
             /\ Lt(MathAbs(FittedSlope(lastCall)), Rat(1, 2))
                    => lastCall.result.trend = "stable"
             /\ Ge(FittedSlope(lastCall), Rat(1, 2))
                    => lastCall.result.trend = "improving"
             /\ Le(FittedSlope(lastCall), Rat(-1, 2))
                    => lastCall.result.trend = "declining"
        ELSE lastCall.result.trend = "unknown"

\* a forecast whose slope is exactly the threshold
C12_Witness ==
    /\ lastCall.fn = "forecast" /\ WellFormed(lastCall.before)
    /\ lastCall.result.success = TRUE
    /\ lastCall.result.summary.trend_strength = Rat(1, 2)
    /\ lastCall.result.trend = "improving"

\* C13: a call with a region succeeds with 7 forecast points and
\* metadata.region equal to the region whenever the array holds at least 7
\* readings and the region occurs among them.
C13_RegionCallSucceeds ==
    (/\ lastCall.fn = "forecast" /\ WellFormed(lastCall.before)
     /\ lastCall.region # NULL
     /\ Len(lastCall.before.items) >= 7
     /\ Len(Remaining(lastCall)) >= 1) =>
        /\ lastCall.result.success = TRUE
        /\ Len(lastCall.result.forecast_quality_index) = 7
        /\ lastCall.result.metadata.region = lastCall.region

\* two results that differ at most in what the random noise touches
SameButNoise(a, b) ==
    /\ a.success = b.success
    /\ a.trend = b.trend
    /\ IF a.success
       THEN /\ a.metadata = b.metadata
            /\ a.summary.data_points_used = b.summary.data_points_used
            /\ a.summary.current_quality_index = b.summary.current_quality_index
            /\ a.summary.trend_strength = b.summary.trend_strength
            /\ \A k \in 1..7 :
                  LET p == a.forecast_quality_index[k]
                      q == b.forecast_quality_index[k]
                  IN /\ p.date = q.date /\ p.day_offset = q.day_offset
                     /\ p.trend_component = q.trend_component
                     /\ p.base_component = q.base_component
                     /\ p.seasonal_factor = q.seasonal_factor
       ELSE a = b

\* the caller's array reduced to the readings of one region
OnlyRegion(arg, region) ==
    [arg EXCEPT !.items = SelectSeq(arg.items, LAMBDA r : r.region = region)]

MeanQuality(readings) ==
    Div(SumSeq([i \in 1..Len(readings) |-> QualityOf(readings[i])]), Num(Len(readings)))

\* the readings of the window that fall on the weekday of day
OnWeekdayOf(window, day) ==
    SelectSeq(window, LAMBDA r : GetDay(NewDate(r.timestamp)) = (day + 4) % 7)

\* C26: the seasonal factor used for a forecast date's weekday is the mean
\* quality index of the recent-window readings on that weekday divided by the
\* mean quality index of all recent-window readings, and 1 when the window has
\* no reading on that weekday.
C26_SeasonalFactor ==
    (lastCall.fn = "forecast" /\ WellFormed(lastCall.before)
        /\ lastCall.result.success = TRUE) =>
        LET window == SliceLast(Remaining(lastCall), 30)
        IN \A k \in 1..Len(lastCall.result.forecast_quality_index) :
               LET point == lastCall.result.forecast_quality_index[k]
                   onDay == OnWeekdayOf(window, point.date)
               IN point.seasonal_factor =
                      (IF onDay = <<>> THEN Num(1)
                       ELSE Div(MeanQuality(onDay), MeanQuality(window)))

\* quality indices that are apart by no more than 2.1, or both not a number
WithinNoise(p, q) ==
    \/ IsNaN(p) /\ IsNaN(q)
    \/ Le(MathAbs(Sub(p, q)), Rat(21, 10))

\* two results that agree on everything but the noise in quality_index
SameButQuality(first, second) ==
    /\ first.success = second.success
    /\ first.trend = second.trend
    /\ Len(first.forecast_quality_index) = Len(second.forecast_quality_index)
    /\ \A k \in 1..Len(first.forecast_quality_index) :
           LET p == first.forecast_quality_index[k]
               q == second.forecast_quality_index[k]
           IN /\ p.day_offset = q.day_offset
              /\ p.date = q.date
              /\ p.seasonal_factor = q.seasonal_factor
              /\ p.trend_component = q.trend_component
              /\ p.base_component = q.base_component
              /\ p.confidence_interval.confidence_level
                     = q.confidence_interval.confidence_level
              /\ WithinNoise(p.quality_index, q.quality_index)

\* a call of generateWaterQualityForecast directly after another one with the
\* same region, on the array the first call left
CalledTwice == lastCall'.fn = "forecast" /\ lastCall'.repeated /\ lastCall' # lastCall

\* C30: two calls of generateWaterQualityForecast on the same readings and
\* region agree on success, trend, day_offset, dates, seasonal_factor,
\* trend_component, base_component and confidence_level of every forecast
\* point; only quality_index may differ, by at most 2.1 for each day.
C30_SameButNoise ==
    [][CalledTwice => SameButQuality(lastCall.result, lastCall'.result)]_vars

\* the second of two successful calls on the same readings returned, for some
\* day, another quality_index than the first, which drew its noise 14 draws
\* before the stream position reached now
C30_Witness ==
    /\ lastCall.fn = "forecast" /\ lastCall.repeated
    /\ WellFormed(lastCall.before)
    /\ lastCall.result.success = TRUE
    /\ \E k \in 1..7 :
           lastCall.result.forecast_quality_index[k].quality_index
             # generateWaterQualityForecast(lastCall.before, lastCall.region, "linear",
                   (rngPos + 14 * (Len(randoms) - 1)) % Len(randoms))
                   .result.forecast_quality_index[k].quality_index

-----------------------------------------------------------------------------
(* Batch summary generator: properties *)

\* the call was made on readings that all carry a date
BatchOfDatedReadings ==
    /\ batchCall.fn = "generateBatchSummaries"
    /\ batchCall.data.given
    /\ \A i \in 1..Len(batchCall.data.items) : batchCall.data.items[i].timestamp.valid

RECURSIVE SumOf(_)
SumOf(ints) == IF ints = <<>> THEN 0 ELSE Head(ints) + SumOf(Tail(ints))

\* the summaries whose period [period_start, period_end) contains the instant
PeriodsHolding(summaries, time) ==
    {i \in 1..Len(summaries) :
        /\ DateParse(summaries[i].period_start).time <= time
        /\ time < DateParse(summaries[i].period_end).time}

\* C15: each reading is counted in exactly one bucket: the total_readings of
\* the summaries add up to the input length, and an empty or missing input
\* yields an empty list.
C15_Partition ==
    /\ BatchOfDatedReadings =>
          /\ ~batchCall.raised
          /\ SumOf([i \in 1..Len(batchCall.result) |->
                       batchCall.result[i].total_readings])
                = Len(batchCall.data.items)
    /\ (batchCall.fn = "generateBatchSummaries"
            /\ (~batchCall.data.given \/ batchCall.data.items = <<>>)) =>
          ~batchCall.raised /\ batchCall.result = <<>>

\* readings of several buckets, two of them in the same bucket
C15_Witness ==
    /\ BatchOfDatedReadings
    /\ Len(batchCall.result) >= 2
    /\ \E i \in 1..Len(batchCall.result) : batchCall.result[i].total_readings >= 2

\* C16: the summaries are ordered strictly descending by bucket timestamp,
\* whatever the order of the input readings.
C16_NewestFirst ==
    BatchOfDatedReadings =>
        \A i \in 1..Len(batchCall.result) - 1 :
            DateParse(batchCall.result[i].timestamp).time
                > DateParse(batchCall.result[i + 1].timestamp).time

\* readings supplied oldest first, in more than one bucket
C16_Witness ==
    /\ BatchOfDatedReadings
    /\ Len(batchCall.result) >= 2
    /\ \A i \in 1..Len(batchCall.data.items) - 1 :
          DateParse(batchCall.data.items[i].timestamp).time
              < DateParse(batchCall.data.items[i + 1].timestamp).time

\* C17: data_completeness_percentage = min(100, actual / expected * 100) with
\* expected = ceil(sensorCount * 0.25 * hoursInBucket); it never exceeds 100.
C17_CompletenessCapped ==
    BatchOfDatedReadings =>
        \A i \in 1..Len(batchCall.result) :
            LET s == batchCall.result[i]
            IN /\ Le(s.data_completeness_percentage, Num(100))
               /\ s.data_completeness_percentage =
                      parseFloat(toFixed1(CompletenessCapped(s.total_readings,
                          calculateExpectedReadings(s.sensors_count, s.interval))))

\* C18: every reading is placed in the bucket whose period contains it:
\* period_start <= reading timestamp < period_end.
C18_ReadingInItsPeriod ==
    BatchOfDatedReadings =>
        \A r \in 1..Len(batchCall.data.items) :
            LET time == DateParse(batchCall.data.items[r].timestamp).time
                key == getIntervalKey(timeZone, DateParse(batchCall.data.items[r].timestamp),
                                      batchCall.interval)
            IN \E i \in PeriodsHolding(batchCall.result, time) :
                   batchCall.result[i].timestamp = key

-----------------------------------------------------------------------------
(* Data aggregator: properties *)

\* how many elements of the list are below, and above, x
Below(list, x) == Cardinality({i \in 1..Len(list) : FLt(list[i], x)})
Above(list, x) == Cardinality({i \in 1..Len(list) : FLt(x, list[i])})

\* x can stand at place k when the list is put in ascending order
KthSmallest(list, x, k) == Below(list, x) < k /\ Above(list, x) <= Len(list) - k

\* the middle element for odd counts, the mean of the two middle elements for
\* even counts
IsMedian(list, median) ==
    IF Len(list) % 2 = 1
    THEN \E i \in 1..Len(list) :
            /\ KthSmallest(list, list[i], Len(list) \div 2 + 1)
            /\ median = list[i]
    ELSE \E i, j \in 1..Len(list) :
            /\ i # j
            /\ KthSmallest(list, list[i], Len(list) \div 2)
            /\ KthSmallest(list, list[j], Len(list) \div 2 + 1)
            /\ median = FDivInt(FAdd(list[i], list[j]), 2)

StatisticsCalled == aggCall.fn = "calculateStatistics" /\ aggCall.values.given

\* C19: calculateStatistics gives, for a non-empty numeric list,
\* min <= median <= max, min <= average <= max, stdDev >= 0 and count = the
\* list length, with the median the middle element (odd counts) or the mean of
\* the two middle elements (even counts); for the empty list all six fields
\* are 0.
C19_StatisticsOrdered ==
    StatisticsCalled =>
        LET list == aggCall.values.items
            s == aggCall.result
        IN IF list = <<>> THEN s = NoStatistics
           ELSE /\ s.count = Len(list)
                /\ FLe(s.min, s.median) /\ FLe(s.median, s.max)
                /\ FLe(s.min, s.average) /\ FLe(s.average, s.max)
                /\ ~IsNegative(s.stdDev)
                /\ IsMedian(list, s.median)

DistributionCalled ==
    aggCall.fn = "calculateQualityDistribution" /\ aggCall.values.given

\* the indices of the list from low (inclusive) up to high (exclusive)
CountBetween(list, low, high) ==
    Cardinality({i \in 1..Len(list) : Ge(list[i], low) /\ Lt(list[i], high)})

CountFrom(list, low) == Cardinality({i \in 1..Len(list) : Ge(list[i], low)})

CountUnder(list, high) == Cardinality({i \in 1..Len(list) : Lt(list[i], high)})

\* C20: calculateQualityDistribution gives, for every list of quality indices,
\* the empty list included, excellent + good + fair + poor = total = the list
\* length, every index counted in exactly one class, and a percentages entry
\* for each of the four classes.
C20_DistributionComplete ==
    DistributionCalled =>
        LET list == aggCall.values.items
            dist == aggCall.result
        IN /\ dist.excellent + dist.good + dist.fair + dist.poor = dist.total
           /\ dist.total = Len(list)
           /\ dist.excellent = CountFrom(list, Num(80))
           /\ dist.good = CountBetween(list, Num(60), Num(80))
           /\ dist.fair = CountBetween(list, Num(40), Num(60))
           /\ dist.poor = CountUnder(list, Num(40))
           /\ "percentages" \in DOMAIN dist
           /\ DOMAIN dist.percentages = {"excellent", "good", "fair", "poor"}

QualityClasses == {"excellent", "good", "fair", "poor"}

\* the class the breakpoints 80, 60 and 40 give the index q
ClassOf(q) ==
    IF Ge(q, Num(80)) THEN "excellent"
    ELSE IF Ge(q, Num(60)) /\ Lt(q, Num(80)) THEN "good"
    ELSE IF Ge(q, Num(40)) /\ Lt(q, Num(60)) THEN "fair"
    ELSE "poor"

\* C21: quality classification is the same everywhere: the rating
\* getQualityRating gives an index q is the class in which the quality
\* distributions count q: excellent for q >= 80, good for 60 <= q < 80, fair
\* for 40 <= q < 60, poor for q < 40.
C21_SameClassification ==
    DistributionCalled =>
        LET list == aggCall.values.items
            dist == aggCall.result
        IN /\ \A i \in 1..Len(list) : getQualityRating(list[i]) = ClassOf(list[i])
           /\ \A class \in QualityClasses :
                  dist[class] =
                      Cardinality({i \in 1..Len(list) : getQualityRating(list[i]) = class})

\* a distribution was taken of a list holding two breakpoints and an index
\* just below one
C21_Witness ==
    /\ DistributionCalled
    /\ \E i, j, k \in 1..Len(aggCall.values.items) :
           /\ aggCall.values.items[i] = Num(80)
           /\ aggCall.values.items[j] = Num(40)
           /\ aggCall.values.items[k] = Rat(399, 10)
    /\ aggCall.result.excellent = 1 /\ aggCall.result.fair = 1
    /\ aggCall.result.poor = 1

-----------------------------------------------------------------------------
(* Anomaly detection: properties *)

Detected == dataCall.fn = "detectAnomalies"

\* the thresholds detectAnomalies works with in the last call
EffectiveThresholds == Spread(defaultThresholds, dataCall.thresholds)

\* a value violates a threshold when it is a number below min or above max
Violates(value, threshold) ==
    /\ value.kind = "number"
    /\ Under(value, threshold.min) \/ Over(value, threshold.max)

\* the parameters whose threshold a reading violates
ViolatedBy(reading, thresholds) ==
    (IF Violates(reading.temperature, thresholds.temperature)
     THEN <<"temperature">> ELSE <<>>)
    \o (IF Violates(reading.pH, thresholds.pH) THEN <<"pH">> ELSE <<>>)
    \o (IF Violates(reading.turbidity, thresholds.turbidity)
        THEN <<"turbidity">> ELSE <<>>)
    \o (IF Violates(reading.region_avg_quality_index, thresholds.quality_index)
        THEN <<"quality_index">> ELSE <<>>)

\* the positions of the readings that violate some threshold, in input order
Violators(data, thresholds) ==
    SelectSeq([i \in 1..Len(data) |-> i],
              LAMBDA i : ViolatedBy(data[i], thresholds) # <<>>)

\* C22: detectAnomalies returns, in input order, exactly the readings that
\* violate at least one effective threshold, each with an anomalies field
\* listing exactly the parameters it violates; a null or missing value
\* violates nothing.
C22_ExactlyTheViolators ==
    Detected =>
        /\ dataCall.indices = Violators(dataCall.before, EffectiveThresholds)
        /\ \A k \in 1..Len(dataCall.result) :
              dataCall.result[k].anomalies =
                  Given(ViolatedBy(dataCall.before[dataCall.indices[k]],
                                   EffectiveThresholds))

\* the positions detectAnomalies would return under given final thresholds
Flagged(data, finalThresholds) ==
    SelectSeq([i \in 1..Len(data) |-> i],
              LAMBDA i : AnomaliesOf(data[i], finalThresholds) # <<>>)

\* C25: every default bound the caller did not override stays in force: the
\* readings returned, and their anomalies, are those found under the caller's
\* bounds completed by the default bounds.
C25_DefaultBoundsStay ==
    Detected =>
        LET complete == SpreadDeep(defaultThresholds, dataCall.thresholds)
        IN /\ dataCall.indices = Flagged(dataCall.before, complete)
           /\ \A k \in 1..Len(dataCall.result) :
                 dataCall.result[k].anomalies =
                     Given(AnomaliesOf(dataCall.before[dataCall.indices[k]], complete))

\* C29: after any sequence of detectAnomalies calls a reading carries an
\* anomalies field only if the most recent call returned it, and the field
\* lists the parameters violated under that call's thresholds.
C29_AnomaliesOfLastCall ==
    Detected =>
        \A i \in 1..Len(sensorData) :
            sensorData[i].anomalies.given =>
                /\ \E k \in 1..Len(dataCall.indices) : dataCall.indices[k] = i
                /\ sensorData[i].anomalies.items =
                       AnomaliesOf(dataCall.before[i], EffectiveThresholds)

BatchCalled == dataCall.fn = "generateBatchSummaries"

\* what identifies a reading in an anomalies entry
EntryOf(reading) ==
    <<reading.timestamp, reading.sensor_id, reading.region, reading.temperature,
      reading.pH, reading.turbidity, reading.region_avg_quality_index>>

\* C24: with includeAnomalies the anomalies list of each batch summary has an
\* entry for exactly the readings of the bucket that detectAnomalies with the
\* default thresholds returns for that bucket.
C24_BatchAnomaliesAsDefault ==
    BatchCalled =>
        LET buckets == BucketsOf(timeZone, dataCall.before, dataCall.interval)
        IN \A b \in 1..Len(dataCall.result) :
              LET expected == detectAnomalies(buckets[b].readings, NoThresholds).result
                  entries == dataCall.result[b].anomalies
              IN [k \in 1..Len(entries) |->
                     <<entries[k].timestamp, entries[k].sensor_id, entries[k].region,
                       entries[k].values.temperature, entries[k].values.pH,
                       entries[k].values.turbidity, entries[k].values.quality_index>>]
                 = [k \in 1..Len(expected) |-> EntryOf(expected[k])]

-----------------------------------------------------------------------------
(* Trend analysis: properties *)

Trended == dataCall.fn = "calculateTrend"

\* the non-null values readings have for a parameter, in input order
PresentValues(data, parameter) ==
    LET present == SelectSeq(data, LAMBDA reading : NotNullish(reading[parameter]))
    IN [i \in 1..Len(present) |-> present[i][parameter].val]

\* the change from the first to the last value in percent of the first
ChangeOf(values) ==
    Mul(Div(Sub(values[Len(values)], values[1]), values[1]), Num(100))

\* stable within 5 percent either way, else the direction of the change
LabelOf(change) ==
    IF Le(change, Num(5)) /\ Ge(change, Num(-5)) THEN "stable"
    ELSE IF Gt(change, Num(0)) THEN "increasing"
    ELSE "decreasing"

\* C23: calculateTrend returns 'insufficient_data' with slope, correlation and
\* change_percentage 0 exactly when fewer than 2 readings have a non-null
\* value for the parameter; with at least 2 non-null values it returns
\* 'stable' if |change_percentage| <= 5 and else 'increasing' or
\* 'decreasing' by the sign of the change.
C23_TrendOfNonNullValues ==
    Trended =>
        LET values == PresentValues(dataCall.before, dataCall.parameter)
        IN IF Len(values) < 2
           THEN /\ dataCall.result.trend = "insufficient_data"
                /\ dataCall.result.slope = Finite(Zero)
                /\ dataCall.result.correlation = Finite(Zero)
                /\ dataCall.result.change_percentage = Finite(Zero)
           ELSE dataCall.result.trend = LabelOf(ChangeOf(values))

-----------------------------------------------------------------------------
(* ForecastCache: properties *)

\* positions of the history after the last clear()
SinceClear ==
    LET clears == {i \in 1..Len(history) : history[i].op = "clear"}
    IN {i \in 1..Len(history) : \A c \in clears : c < i}

\* positions of the set() calls on `key` that no clear() has followed
SetsOf(key) == {i \in SinceClear : history[i].op = "set" /\ history[i].key = key}

Latest(idx) == CHOOSE i \in idx : \A j \in idx : j <= i

\* two params objects hold the same field/value pairs
SameProps(p, q) == {p[i] : i \in 1..Len(p)} = {q[i] : i \in 1..Len(q)}

\* C6: a get within ttl of the latest set on its key returns the data of that
\* set and keeps the entry; a get later than ttl after it returns null and
\* leaves the key absent (so the next get finds nothing either).
C6_TtlExpiry ==
    (lastOp.op = "get" /\ SetsOf(lastOp.key) # {}) =>
        LET s == history[Latest(SetsOf(lastOp.key))]
        IN IF lastOp.at - s.at <= ttl
           THEN lastOp.ret = s.data /\ MapHas(cache, lastOp.key)
           ELSE lastOp.ret = NULL /\ ~MapHas(cache, lastOp.key)

\* a get that found its key already evicted by an earlier expired get
C6_Witness ==
    /\ lastOp.op = "get" /\ SetsOf(lastOp.key) # {}
    /\ ~lastOp.hadKey /\ lastOp.ret = NULL

\* a get exactly ttl after the set, which still returns the data
C6_WitnessBoundary ==
    /\ lastOp.op = "get" /\ SetsOf(lastOp.key) # {}
    /\ lastOp.at - history[Latest(SetsOf(lastOp.key))].at = ttl
    /\ lastOp.ret # NULL

\* C7: a value stored with one field order of params is found by a get that
\* passes the same fields in another order (the two calls produce one key).
C7_KeyOrderIndependent ==
    lastOp.op = "get" =>
        \A i \in SinceClear :
            ( /\ history[i].op = "set"
              /\ history[i].region = lastOp.region
              /\ SameProps(history[i].params, lastOp.params)
              /\ lastOp.at - history[i].at <= ttl )
            => (history[i].key = lastOp.key /\ lastOp.ret # NULL)

\* C8: a get for one region returns only data that was stored under that
\* region, and with the same params two regions never share a key.
C8_RegionsKeptApart ==
    lastOp.op = "get" =>
        /\ lastOp.ret # NULL =>
              \E i \in SinceClear :
                  /\ history[i].op = "set"
                  /\ history[i].region = lastOp.region
                  /\ history[i].data = lastOp.ret
        /\ \A i \in 1..Len(history) :
              (history[i].op = "set" /\ history[i].params = lastOp.params
               /\ history[i].region # lastOp.region)
              => history[i].key # lastOp.key

\* C9: size() is the number of distinct keys stored; a set on a present key
\* replaces the value and keeps size, a set on a new key adds exactly one.
C9_SizeCountsKeys ==
    /\ size = Cardinality({cache[i].key : i \in 1..Len(cache)})
    /\ lastOp.op = "set" =>
          /\ MapHas(cache, lastOp.key)
          /\ MapGet(cache, lastOp.key) = [data |-> lastOp.data, timestamp |-> lastOp.at]
          /\ size = (IF lastOp.hadKey THEN lastOp.sizeBefore ELSE lastOp.sizeBefore + 1)

\* a set that replaced the value of a present key while another key is stored
C9_Witness ==
    /\ lastOp.op = "set" /\ lastOp.hadKey /\ size = 2
    /\ \E i \in SinceClear : history[i].op = "set" /\ history[i].key = lastOp.key
                              /\ history[i].data # lastOp.data

\* C10: clear() leaves size() = 0, and a get on a key that is not stored
\* (never set, or set only before the last clear) returns null.
C10_ClearEmpties ==
    /\ lastOp.op = "clear" => size = 0
    /\ (lastOp.op = "get" /\ SetsOf(lastOp.key) = {}) =>
          (lastOp.ret = NULL /\ ~MapHas(cache, lastOp.key))

\* a get, after a clear, on a key that was stored when the clear was made
C10_Witness ==
    /\ lastOp.op = "get" /\ SetsOf(lastOp.key) = {}
    /\ \E i \in 1..Len(history) : history[i].op = "set" /\ history[i].key = lastOp.key
    /\ lastOp.ret = NULL

\* the cache call that a step makes, if it makes one
CalledGet == calls' # calls /\ lastOp'.op = "get"
CalledSet == calls' # calls /\ lastOp'.op = "set"
CalledClear == calls' # calls /\ lastOp'.op = "clear"

\* C27: the lifetime of an entry is measured from its most recent set only: a
\* get never extends it (it leaves the stored timestamps as they are, and it
\* returns data only within ttl of the timestamp), while a set on an existing
\* key restarts it from the time of that set.
C27_LifetimeFromLastSet ==
    [][ /\ CalledGet =>
             /\ \A i \in 1..Len(cache') : \E j \in 1..Len(cache) : cache'[i] = cache[j]
             /\ lastOp'.hadKey =>
                    (lastOp'.ret # NULL <=> now - MapGet(cache, lastOp'.key).timestamp <= ttl)
        /\ CalledSet =>
             MapGet(cache', lastOp'.key) = [data |-> lastOp'.data, timestamp |-> now]
      ]_vars

\* an entry stored at 0 and read at ttl was found expired by the next read at
\* 2 * ttl
C27_Witness ==
    /\ Len(history) = 3
    /\ history[1].op = "set" /\ history[1].at = 0
    /\ history[2].op = "get" /\ history[2].key = history[1].key
    /\ history[2].at = ttl /\ history[2].data = history[1].data
    /\ history[3].op = "get" /\ history[3].key = history[1].key
    /\ history[3].at = 2 * ttl /\ history[3].data = NULL

\* an entry stored at 0 and stored again at ttl was still returned at 2 * ttl
C27_WitnessRestart ==
    /\ Len(history) = 3
    /\ history[1].op = "set" /\ history[1].at = 0
    /\ history[2].op = "set" /\ history[2].key = history[1].key /\ history[2].at = ttl
    /\ history[3].op = "get" /\ history[3].key = history[1].key
    /\ history[3].at = 2 * ttl /\ history[3].data = history[2].data

\* the entries stored under keys other than key
Others(m, key) == SelectSeq(m, LAMBDA e : e.key # key)

\* C28: entries are removed only by clear() or by a get on their own key after
\* expiry: a get or set on one key never changes the stored value, timestamp
\* or presence of any other key, a get removes its own entry only when it is
\* older than ttl, a set removes nothing, and the passing of time removes
\* nothing, so an expired entry that was not read stays counted by size().
C28_RemovedOnlyByClearOrOwnGet ==
    [][ /\ (CalledGet \/ CalledSet) =>
             Others(cache', lastOp'.key) = Others(cache, lastOp'.key)
        /\ (CalledGet /\ lastOp'.hadKey /\ ~MapHas(cache', lastOp'.key)) =>
             now - MapGet(cache, lastOp'.key).timestamp > ttl
        /\ CalledSet => MapHas(cache', lastOp'.key)
        /\ ~(CalledGet \/ CalledSet \/ CalledClear) => cache' = cache
      ]_vars

\* two entries older than ttl, one just evicted by a get on its key, the other
\* still counted by size()
C28_Witness ==
    /\ lastOp.op = "get" /\ lastOp.hadKey /\ lastOp.ret = NULL
    /\ lastOp.sizeBefore = 2 /\ size = 1
    /\ now - cache[1].value.timestamp > ttl

=============================================================================
